---- MODULE Spec2Model ----
(***************************************************************************)
(* A model of the cataloger: ContainerRuntime (the persistent interpreter   *)
(* behind a file channel, runtime.py), ContainerPool (acquire / release /  *)
(* cleanup, pool.py), AgentLoop, CatalogWorkflow and the object store.     *)
(*                                                                         *)
(* Spec      one caller driving the whole API, execute and reset included  *)
(* SpecPool  several callers, whole pool calls taken one at a time         *)
(* SpecConc  several threads, pool calls split at their docker calls       *)
(* SpecApi   SpecPool plus release() handed a Runtime that is not issued   *)
(* SpecFault SpecPool with docker calls that can be refused                *)
(* SpecRun   the acquire / work / finally skeleton of CatalogWorkflow.run  *)
(* SpecAgent AgentLoop.run against one Runtime (loop.py)                   *)
(* SpecStore CatalogWorkflow.run on two worker threads and the bucket      *)
(* SpecRetry one thread of SpecStore with process crashes and retries      *)
(* SpecComments  write_comment and list_comments on the Runs of a prefix   *)
(* SpecList  list_timestamps over the buckets of a prefix                  *)
(* SpecLost  SpecRun with sandboxes that stop at any moment                *)
(* SpecChan  execute and the interpreter loop, one file operation a step   *)
(* SpecChanFair  SpecChan with the interpreter process scheduled fairly    *)
(* SpecRead  the reads, the listings and the context summary of a bucket   *)
(* SpecContext  the previous context of a run, with the store failing      *)
(***************************************************************************)
EXTENDS Integers, Sequences, FiniteSets, TLC

\* ------------------------------------------------------------------ bounds
MaxExec == 2
NumHolders == 3
MaxContainers == 3
MaxSessions == 3

\* ContainerPool(pool_size=2), the pool the tests build
pool_size == 2

Holders == 1..NumHolders
\* SpecConc: the worker threads, and thread 0, the lifespan task that runs
\* cleanup at shutdown
Threads == 0..NumHolders
SessionHolders == {1}
Cids == 1..MaxContainers
DbStrings == {"A", "B"}

\* the code snippets a caller submits:
\*   def1, def2  x = 1 / x = 2          (no output)
\*   print       print(x)               (NameError when x is unbound)
\*   raise       raise ValueError(..)
\*   exit        import sys; sys.exit() (SystemExit is not an Exception)
\*   loop        while True: pass       (never returns)
\*   slow        time.sleep(61); print(61)   (returns after execute's timeout)
\*   ""          an empty code file
Codes == {"def1", "def2", "print", "raise", "exit", "loop"}

VARIABLES
    available,    \* ContainerPool._available: list of containers
    in_use,       \* ContainerPool._in_use: set of container ids
    status,       \* docker's view of each container id
    interps,      \* the interpreter processes alive in each container
    code_input,   \* /tmp/code_input.py of each container
    code_output,  \* /tmp/code_output.txt of each container
    rt,           \* the ContainerRuntime object each caller holds
    stale,        \* the ContainerRuntime object a caller released last
    nextSid,      \* the next fresh session id (uuid4)
    pc,           \* SpecConc: where each thread is inside a pool call
    loc,          \* SpecConc: the locals of that call
    log,          \* history: the execute calls made on rt[h] since construction/reset
    resetInfo,    \* history: whether rt[h] was reset, and what was bound then
    issues,       \* history: the db strings each sandbox was issued with
    lastCall,     \* history: the last pool call and how it ended
    agent,        \* the AgentLoop.run in progress on rt[1]: its locals
    store,        \* the bucket: the object stored under each key
    now,          \* the wall clock (datetime.utcnow), in ticks
    wf,           \* the locals of the CatalogWorkflow.run each thread is in
    runs,         \* history: every call of run (its timestamp, outcome, reads)
    posted,       \* history: the write_comment calls that returned
    chan          \* SpecChan: where execute and the interpreter loop are, step by step

poolVars == <<available, in_use, status>>
boxVars == <<interps, code_input, code_output>>
callerVars == <<rt, stale, nextSid>>
threadVars == <<pc, loc>>
histVars == <<log, resetInfo, issues, lastCall>>
storeVars == <<store, now, wf, runs, posted, chan>>
vars == <<available, in_use, status, interps, code_input, code_output, rt, stale,
          nextSid, pc, loc, log, resetInfo, issues, lastCall, agent,
          store, now, wf, runs, posted, chan>>

\* ------------------------------------------------------------ text as lines
\* A text is a sequence of lines; a line is <<word, number>>.
BLANK == <<"", 0>>
ERROR_LINE == <<"ERROR", 0>>
Txt(v) == <<"value", v>>
Trace(name) == <<<<"Traceback (most recent call last):", 0>>, <<name, 0>>>>

\* f"__CATALOGER_OUTPUT_END_{self._session_id}__"
output_marker(sid) == <<"__CATALOGER_OUTPUT_END__", sid>>

NoFile == <<<<"absent", 0>>>>

\* f.write(output); f.write("\n{marker}\n"); if error_occurred: f.write("ERROR\n")
WriteOutput(out, sid, err) ==
    out \o <<BLANK, output_marker(sid)>> \o (IF err THEN <<ERROR_LINE>> ELSE <<>>)

\* output.endswith("ERROR\n")
EndsWithError(raw) == Len(raw) > 0 /\ raw[Len(raw)] = ERROR_LINE

\* output[: -len("ERROR\n")]
DropError(raw) == SubSeq(raw, 1, Len(raw) - 1)

\* output.replace(f"\n{self._output_marker}\n", ""): only the caller's own marker
RECURSIVE RemoveMarker(_, _)
RemoveMarker(t, sid) ==
    IF Len(t) < 2 THEN t
    ELSE IF t[1] = BLANK /\ t[2] = output_marker(sid)
         THEN RemoveMarker(SubSeq(t, 3, Len(t)), sid)
         ELSE <<t[1]>> \o RemoveMarker(Tail(t), sid)

\* output.rstrip()
RECURSIVE rstrip(_)
rstrip(t) ==
    IF Len(t) > 0 /\ t[Len(t)] = BLANK THEN rstrip(SubSeq(t, 1, Len(t) - 1)) ELSE t

\* ------------------------------------------------------------- interpreter
\* the namespace exec(code, _globals) runs in: the one dict kept across the loop
GlobalsFresh(x) == 0
GlobalsForExec(x) == x

\* exec(code, _globals) under the try/except Exception of the interpreter loop
ExecCode(code, x0) ==
    LET x == GlobalsForExec(x0) IN
    CASE code = "def1"  -> [fate |-> "done", x |-> 1, out |-> <<>>, err |-> FALSE]
      [] code = "def2"  -> [fate |-> "done", x |-> 2, out |-> <<>>, err |-> FALSE]
      [] code = "print" -> IF x = 0
                           THEN [fate |-> "done", x |-> x, out |-> Trace("NameError"),
                                 err |-> TRUE]
                           ELSE [fate |-> "done", x |-> x, out |-> <<Txt(x)>>,
                                 err |-> FALSE]
      [] code = "raise" -> [fate |-> "done", x |-> x, out |-> Trace("ValueError"),
                            err |-> TRUE]
      [] code = "exit"  -> [fate |-> "exit", x |-> x, out |-> <<>>, err |-> FALSE]
      [] code = "slow"  -> [fate |-> "done", x |-> x, out |-> <<Txt(61)>>, err |-> FALSE]
      [] code = ""      -> [fate |-> "done", x |-> x, out |-> <<>>, err |-> FALSE]
      [] OTHER          -> [fate |-> "loop", x |-> x, out |-> <<>>, err |-> FALSE]

\* os.environ["DB_CONNECTION_STRING"] = {self.db_connection_string!r} or ""
\* _globals = {"__name__": "__main__"}
InterpreterEnvUnset(db, sid) == [sid |-> sid, db |-> "", x |-> 0, busy |-> FALSE]
InterpreterEnv(db, sid) == [sid |-> sid, db |-> db, x |-> 0, busy |-> FALSE]

\* python -u /tmp/interpreter.py ... &   (nothing already running is stopped)
start_interpreter(procs, db, sid) == procs \cup {InterpreterEnv(db, sid)}

\* the interpreters polling for a code file
Idle(c) == {i \in interps[c] : ~i.busy}

\* pkill -f 'python -u /tmp/interpreter.py'
PkillKeepsAll(procs) == procs
Pkill(procs) == {}

\* ------------------------------------------------------------- the Runtime
NoRuntime == [container |-> 0, db |-> "", sid |-> 0,
              code_history |-> <<>>, output_history |-> <<>>]

\* ContainerRuntime.__init__
NewRuntime(c, db, sid) == [container |-> c, db |-> db, sid |-> sid,
                           code_history |-> <<>>, output_history |-> <<>>]

Min(a, b) == IF a < b THEN a ELSE b

ScriptLine(kind, n, text) == [kind |-> kind, n |-> n, text |-> text]

RECURSIVE CommentLines(_)
CommentLines(out) ==
    IF out = <<>> THEN <<>>
    ELSE <<ScriptLine("# ", 0, out[1])>> \o CommentLines(Tail(out))

\* one pass of the loop body of get_session_script
ScriptBlock(i, code, output) ==
    <<ScriptLine("# === Code Block", i, BLANK), ScriptLine("code", 0, <<code, 0>>),
      ScriptLine("", 0, BLANK), ScriptLine("# --- Output", i, BLANK)>>
    \o (IF output # <<>> THEN CommentLines(output)
        ELSE <<ScriptLine("# (no output)", 0, BLANK)>>)
    \o <<ScriptLine("", 0, BLANK)>>

RECURSIVE ScriptFrom(_, _, _)
ScriptFrom(i, codes, outputs) ==
    IF i > Min(Len(codes), Len(outputs)) THEN <<>>
    ELSE ScriptBlock(i, codes[i], outputs[i]) \o ScriptFrom(i + 1, codes, outputs)

\* ContainerRuntime.get_session_script: enumerate(zip(code_history, output_history))
get_session_script(r) == ScriptFrom(1, r.code_history, r.output_history)

\* ContainerRuntime.get_code_history
get_code_history(r) == r.code_history

\* ---------------------------------------------------------------- AgentLoop
\* max_iterations = 50 in run; AgentLoop(max_tokens=100_000), the output budget
max_iterations == 50
max_tokens == 100000

\* tool-use blocks per response
MaxBlocks == 2

\* content blocks.  A tool_use block has an id, the tool's name, whether its
\* input carries the tool's field (code / content), and that field; a
\* tool_result block has the id it answers and the result text.
Block(type, id, name, has, code, text) ==
    [type |-> type, id |-> id, name |-> name, has |-> has, code |-> code, text |-> text]
TextBlock(word) == Block("text", 0, "", FALSE, "", <<<<word, 0>>>>)
ToolUse(id, name, has, code, text) == Block("tool_use", id, name, has, code, text)

\* {"type": "tool_result", "tool_use_id": block.id, "content": result}
ToolResultNoId(b, text) == Block("tool_result", 0, "", FALSE, "", text)
ToolResult(b, text) == Block("tool_result", b.id, "", FALSE, "", text)

Message(role, content) == [role |-> role, content |-> content]

\* messages = [{"role": "user", "content": "Context: ... Begin your analysis."}]
OpeningMessages == <<Message("user", <<TextBlock("Context")>>)>>

NoResponse == [stop |-> "none", content |-> <<>>, tokens |-> 0]

\* the locals of run before its first iteration
NewAgent ==
    [phase |-> "new", iteration |-> 0, output |-> 0, messages |-> OpeningMessages,
     response |-> NoResponse, k |-> 0, tool_results |-> <<>>, has_tool_calls |-> FALSE,
     result |-> <<>>, error |-> "", sent |-> <<>>, handled |-> <<>>]

\* ------------------------------------------------------------- object store
\* clock ticks modelled, and ticks per second of the timestamp's %S field
MaxNow == 2
TicksPerSecond == 2
\* the timestamps a directory may carry
MaxStamp == 2

\* generate_timestamp: datetime.utcnow().strftime("%Y-%m-%dT%H:%M:%SZ"), the
\* clock cut to whole seconds.  The string is fixed width, so the order of
\* the strings is the order of these numbers.
generate_timestamp(t) == t \div TicksPerSecond
Stamps == 0..MaxStamp

Artifacts == {"catalog_script.py", "catalog.html", "summary_script.py", "recent_summary.html"}
Users == {"alice", "bob"}

\* f"{prefix}/{timestamp}/{filename}" and
\* f"{prefix}/{timestamp}/comments/{user}-{comment_timestamp}.txt"
Key(ts, dir, user, date, file) ==
    [ts |-> ts, dir |-> dir, user |-> user, date |-> date, file |-> file]
ArtifactKey(ts, filename) == Key(ts, "", "", 0, filename)
CommentKey(ts, user, date) == Key(ts, "comments", user, date, ".txt")
Keys ==
    {ArtifactKey(ts, f) : ts \in Stamps, f \in Artifacts}
    \cup {CommentKey(ts, u, d) : ts \in Stamps, u \in Users, d \in Stamps}

\* an object: the body, and (history) the call of run that put it
NoObject == [by |-> -1, text |-> <<>>]
Object(by, text) == [by |-> by, text |-> text]

\* s3.put_object(Bucket, Key, Body): the key holds the new body
put_object(st, key, obj) == [st EXCEPT ![key] = obj]

\* the directories under f"{prefix}/" that hold an object
Directories(st) == {k.ts : k \in {q \in Keys : st[q] # NoObject}}

\* ascending key order, the order of a listing
RECURSIVE Ascending(_)
Ascending(S) ==
    IF S = {} THEN <<>>
    ELSE LET m == CHOOSE x \in S : \A y \in S : x <= y
         IN  <<m>> \o Ascending(S \ {m})

\* the entries of one list_objects_v2 response (1000 in S3, fewer here)
MaxKeys == 2

\* list_objects_v2(Prefix=f"{prefix}/", Delimiter="/")["CommonPrefixes"]: one
\* response, which holds the first MaxKeys directories in ascending order;
\* list_timestamps asks for no further response
CommonPrefixes(st) ==
    LET all == Ascending(Directories(st))
    IN  SubSeq(all, 1, Min(MaxKeys, Len(all)))

\* timestamps.sort(reverse=True)
RECURSIVE SortReverse(_)
SortReverse(seq) ==
    IF seq = <<>> THEN <<>>
    ELSE LET i == CHOOSE i \in 1..Len(seq) : \A j \in 1..Len(seq) : seq[i] >= seq[j]
         IN  <<seq[i]>> \o SortReverse(SubSeq(seq, 1, i - 1) \o SubSeq(seq, i + 1, Len(seq)))

\* S3Storage.list_timestamps(prefix, limit): sort newest first, timestamps[:limit]
list_timestamps(st, limit) ==
    LET timestamps == SortReverse(CommonPrefixes(st))
    IN  SubSeq(timestamps, 1, Min(limit, Len(timestamps)))

\* execute and the interpreter loop before the first call: the supervisor
\* outside execute, the interpreter polling, no file descriptor open
NoChan ==
    [sup |-> "idle", code |-> "", n |-> 0, ip |-> "poll", icode |-> "", itag |-> 0,
     ifull |-> TRUE, ires |-> [fate |-> "none", x |-> 0, out |-> <<>>, err |-> FALSE],
     intag |-> 0, infd |-> "none", otag |-> 0, ofd |-> "none", calls |-> <<>>, ran |-> <<>>]

\* the locals of run; the record kept of one call of run
NoRead == [ts |-> -1, found |-> {}, writers |-> {}, unfinished |-> {}]
NoWorkflow == [run |-> 0, timestamp |-> 0, previous_context |-> NoRead,
               catalog_html |-> <<>>, summary_html |-> <<>>, failed |-> FALSE]
\* (sessions: the session script of the Runtime as each agent left it)
RunRecord(inv, ts, after) ==
    [inv |-> inv, ts |-> ts, state |-> "running", after |-> after,
     read |-> NoRead, trail |-> <<>>, sessions |-> <<>>]

\* ------------------------------------------------------------------ history
NoCall == [op |-> "none", outcome |-> "none", issued |-> FALSE, changed |-> FALSE]
NoReset == [done |-> FALSE, bound |-> FALSE]

Entry(code, result, timeout, out, ran, pre, db) ==
    [code |-> code, result |-> result, timeout |-> timeout, out |-> out,
     ran |-> ran, pre |-> pre, db |-> db]

\* the Runtime r is the one its sandbox is issued with right now
Issued(r) ==
    /\ r.container \in in_use
    /\ issues[r.container] # <<>>
    /\ issues[r.container][Len(issues[r.container])].sid = r.sid

Call(op, outcome, issued, changed) ==
    [op |-> op, outcome |-> outcome, issued |-> issued, changed |-> changed]

Init ==
    /\ available = <<>>
    /\ in_use = {}
    /\ status = [c \in Cids |-> "none"]
    /\ interps = [c \in Cids |-> {}]
    /\ code_input = [c \in Cids |-> "absent"]
    /\ code_output = [c \in Cids |-> NoFile]
    /\ rt = [h \in Holders |-> NoRuntime]
    /\ stale = [h \in Holders |-> NoRuntime]
    /\ nextSid = 1
    /\ pc = [t \in Threads |-> "idle"]
    /\ loc = [t \in Threads |-> [container |-> 0, ids |-> <<>>, i |-> 0]]
    /\ log = [h \in Holders |-> <<>>]
    /\ resetInfo = [h \in Holders |-> NoReset]
    /\ issues = [c \in Cids |-> <<>>]
    /\ lastCall = NoCall
    /\ agent = NewAgent
    /\ store = [k \in Keys |-> NoObject]
    /\ now = 0
    /\ wf = [h \in Holders |-> NoWorkflow]
    /\ runs = <<>>
    /\ posted = <<>>
    /\ chan = NoChan

\* a thread moves on; a thread sets the locals of the call it is in
Goto(t, label) == pc' = [pc EXCEPT ![t] = label]
SetLoc(t, c, ids, i) == loc' = [loc EXCEPT ![t] = [container |-> c, ids |-> ids, i |-> i]]

\* ---------------------------------------------------- ContainerRuntime calls
\* ContainerRuntime.execute, the whole call.  The supervisor removes the output
\* file, writes the code file and polls; an idle interpreter (if any) consumes
\* the file, runs it and writes the output file.
ExecLost(h, code) ==          \* exec_run on a container that is not running
    /\ log' = [log EXCEPT ![h] =
           Append(@, Entry(code, "APIError", FALSE, <<>>, FALSE, -1, ""))]
    /\ UNCHANGED boxVars

ExecTimeout(h, code) ==       \* nobody consumes the code file
    /\ code_input' = [code_input EXCEPT ![rt[h].container] = code]
    /\ code_output' = [code_output EXCEPT ![rt[h].container] = NoFile]
    /\ log' = [log EXCEPT ![h] =
           Append(@, Entry(code, "ExecutionError", TRUE, <<>>, FALSE, -1, ""))]
    /\ UNCHANGED interps

ExecServed(h, code, i) ==     \* interpreter i consumes the code file
    LET c == rt[h].container
        res == ExecCode(code, i.x)
    IN  /\ code_input' = [code_input EXCEPT ![c] = "absent"]
        /\ interps' = [interps EXCEPT ![c] =
               CASE res.fate = "done" -> (@ \ {i}) \cup {[i EXCEPT !.x = res.x]}
                 [] res.fate = "exit" -> @ \ {i}
                 [] OTHER             -> (@ \ {i}) \cup {[i EXCEPT !.busy = TRUE]}]
        /\ code_output' = [code_output EXCEPT ![c] =
               IF res.fate = "done" THEN WriteOutput(res.out, i.sid, res.err)
               ELSE NoFile]

\* what execute makes of the output file it read
Parse(raw, sid) ==
    IF EndsWithError(raw)
    THEN [error |-> TRUE, output |-> rstrip(RemoveMarker(DropError(raw), sid))]
    ELSE [error |-> FALSE, output |-> rstrip(RemoveMarker(raw, sid))]

ExecuteCall(h, code) ==
    LET r == rt[h]
        c == r.container
        appended == [r EXCEPT !.code_history = Append(@, code)]
    IN  IF status[c] # "running"
        THEN /\ ExecLost(h, code)
             /\ rt' = [rt EXCEPT ![h] = appended]
        ELSE IF Idle(c) = {}
        THEN /\ ExecTimeout(h, code)
             /\ rt' = [rt EXCEPT ![h] = appended]
        ELSE \E i \in Idle(c) :
             /\ ExecServed(h, code, i)
             /\ LET res == ExecCode(code, i.x)
                    got == Parse(WriteOutput(res.out, i.sid, res.err), r.sid)
                IN  IF res.fate # "done"
                    THEN /\ rt' = [rt EXCEPT ![h] = appended]
                         /\ log' = [log EXCEPT ![h] = Append(@,
                                Entry(code, "ExecutionError", TRUE, <<>>, TRUE,
                                      GlobalsForExec(i.x), i.db))]
                    ELSE /\ rt' = [rt EXCEPT ![h] =
                                [appended EXCEPT !.output_history =
                                    Append(@, got.output)]]
                         /\ log' = [log EXCEPT ![h] = Append(@,
                                Entry(code,
                                      IF got.error THEN "ExecutionError" ELSE "ok",
                                      FALSE, got.output, TRUE,
                                      GlobalsForExec(i.x), i.db))]

\* execute called by the holder of rt[h]
Execute(h, code) ==
    /\ pc[h] = "idle"
    /\ rt[h] # NoRuntime
    /\ Len(rt[h].code_history) < MaxExec
    /\ ExecuteCall(h, code)
    /\ UNCHANGED <<poolVars, stale, nextSid, threadVars, resetInfo, issues, lastCall>>
    /\ UNCHANGED <<agent, storeVars>>

\* the sandbox side of ContainerRuntime.reset: pkill, then rm -f of the files
ResetBox(c) ==
    /\ interps' = [interps EXCEPT ![c] = Pkill(@)]
    /\ code_input' = [code_input EXCEPT ![c] = "absent"]
    /\ code_output' = [code_output EXCEPT ![c] = NoFile]

\* the object side: self._code_history = []; self._output_history = []
Cleared(r) == [r EXCEPT !.code_history = <<>>, !.output_history = <<>>]

EverBound(h) ==
    resetInfo[h].bound \/
    \E k \in 1..Len(log[h]) : log[h][k].ran /\ log[h][k].code \in {"def1", "def2"}

\* ContainerRuntime.reset called by the holder (the workflow, between its agents)
ResetCall(h) ==
    IF status[rt[h].container] # "running"
    THEN UNCHANGED <<boxVars, rt, log, resetInfo>>        \* exec_run raises
    ELSE /\ ResetBox(rt[h].container)
         /\ rt' = [rt EXCEPT ![h] = Cleared(@)]
         /\ log' = [log EXCEPT ![h] = <<>>]
         /\ resetInfo' = [resetInfo EXCEPT ![h] =
                [done |-> TRUE, bound |-> EverBound(h)]]

Reset(h) ==
    /\ pc[h] = "idle"
    /\ rt[h] # NoRuntime
    /\ ResetCall(h)
    /\ UNCHANGED <<poolVars, stale, nextSid, threadVars, issues, lastCall>>
    /\ UNCHANGED <<agent, storeVars>>

\* --------------------------------------------------------- ContainerPool calls
\* len(self._in_use) < self.pool_size
UnderPoolSizeOffByOne == Cardinality(in_use) <= pool_size
UnderPoolSize == Cardinality(in_use) < pool_size

\* self._available.pop(): the list without its last element
AfterPop(av) == SubSeq(av, 1, Len(av) - 1)

\* the id docker gives the next container
FreshIds == {c \in Cids : status[c] = "none" /\ \A d \in Cids : status[d] = "none" => c <= d}

\* self._in_use.add(container.id); return ContainerRuntime(container, db, s3_config)
Issue(h, c, db, procs) ==
    /\ in_use' = in_use \cup {c}
    /\ rt' = [rt EXCEPT ![h] = NewRuntime(c, db, nextSid)]
    /\ interps' = [interps EXCEPT ![c] = start_interpreter(procs, db, nextSid)]
    /\ nextSid' = nextSid + 1
    /\ issues' = [issues EXCEPT ![c] = Append(@, [db |-> db, sid |-> nextSid])]
    /\ log' = [log EXCEPT ![h] = <<>>]
    /\ resetInfo' = [resetInfo EXCEPT ![h] = NoReset]
    /\ lastCall' = Call("acquire", "ok", FALSE, TRUE)

\* ContainerPool.acquire, the whole call
AcquireCall(h, db) ==
    IF available # <<>>
    THEN LET c == available[Len(available)] IN
         /\ nextSid <= MaxSessions
         /\ available' = AfterPop(available)
         /\ status' = [status EXCEPT ![c] = "running"]      \* reload; restart
         /\ Issue(h, c, db, IF status[c] = "running" THEN interps[c] ELSE {})
         /\ UNCHANGED <<code_input, code_output>>
    ELSE IF UnderPoolSize
    THEN \E c \in FreshIds :
         /\ nextSid <= MaxSessions
         /\ status' = [status EXCEPT ![c] = "running"]      \* _create_container
         /\ Issue(h, c, db, {})
         /\ UNCHANGED <<available, code_input, code_output>>
    ELSE /\ lastCall' = Call("acquire", "RuntimeError", FALSE, FALSE)
         /\ UNCHANGED <<poolVars, boxVars, rt, nextSid, log, resetInfo, issues>>

\* acquire called by a caller that holds no Runtime
Acquire(h, db) ==
    /\ pc[h] = "idle"
    /\ rt[h] = NoRuntime
    /\ AcquireCall(h, db)
    /\ UNCHANGED <<stale, threadVars>>
    /\ UNCHANGED <<agent, storeVars>>

\* runtime.reset(); self._available.append(runtime.container): a reset that
\* raises leaves release before the append
AfterReleaseAlways(av, c, raised) == Append(av, c)
AfterRelease(av, c, raised) == IF raised THEN av ELSE Append(av, c)

\* ContainerPool.release(r): what it does to the pool and to r's sandbox
PoolRelease(r) ==
    LET c == r.container IN
    IF c \notin in_use
    THEN /\ lastCall' = Call("release", "ValueError", Issued(r), FALSE)
         /\ UNCHANGED <<poolVars, boxVars>>
    ELSE IF status[c] # "running"
    THEN /\ in_use' = in_use \ {c}                          \* reset raises
         /\ available' = AfterRelease(available, c, TRUE)
         /\ lastCall' = Call("release", "APIError", Issued(r), TRUE)
         /\ UNCHANGED <<status, boxVars>>
    ELSE /\ in_use' = in_use \ {c}
         /\ ResetBox(c)
         /\ available' = AfterRelease(available, c, FALSE)
         /\ lastCall' = Call("release", "ok", Issued(r), TRUE)
         /\ UNCHANGED status

\* the holder releases the Runtime it holds (the finally of run / get_runtime)
Release(h, keep) ==
    /\ pc[h] = "idle"
    /\ rt[h] # NoRuntime
    /\ PoolRelease(rt[h])
    /\ rt' = [rt EXCEPT ![h] = NoRuntime]
    /\ stale' = IF keep THEN [stale EXCEPT ![h] = Cleared(rt[h])] ELSE stale
    /\ log' = [log EXCEPT ![h] = <<>>]
    /\ resetInfo' = [resetInfo EXCEPT ![h] = NoReset]
    /\ UNCHANGED <<nextSid, threadVars, issues>>
    /\ UNCHANGED <<agent, storeVars>>

Tracked == in_use \cup {available[k] : k \in 1..Len(available)}

\* how a cleanup call ended: outcome, and the sandboxes docker refused to stop
CleanupCall(outcome, changed, refused) ==
    [op |-> "cleanup", outcome |-> outcome, issued |-> FALSE, changed |-> changed,
     refused |-> refused]

\* the sandbox c is gone: container.stop(timeout=5); container.remove()
Removed(gone) ==
    /\ status' = [c \in Cids |-> IF c \in gone THEN "removed" ELSE status[c]]
    /\ interps' = [c \in Cids |-> IF c \in gone THEN {} ELSE interps[c]]
    /\ code_input' = [c \in Cids |-> IF c \in gone THEN "absent" ELSE code_input[c]]
    /\ code_output' = [c \in Cids |-> IF c \in gone THEN NoFile ELSE code_output[c]]

\* ContainerPool.cleanup, the whole call, when docker answers stop/remove of
\* the sandboxes in bad with err: "NotFound" (the sandbox is gone already) or
\* "APIError" (any other docker error; the sandbox stays).  The loop over
\* _in_use passes NotFound only, the loop over _available passes every APIError.
CleanupWith(bad, err) ==
    /\ \A h \in Holders : pc[h] = "idle"
    /\ LET stuck == IF err = "APIError" THEN in_use \cap bad ELSE {}
           kept == IF err = "APIError" THEN Tracked \cap bad ELSE {}
       IN  IF stuck # {}
           THEN \E done \in SUBSET (in_use \ stuck) :      \* iterated before the raise
                /\ Removed(done)
                /\ in_use' = in_use \ done
                /\ UNCHANGED available
                /\ lastCall' = CleanupCall("APIError", done # {}, Tracked \cap bad)
           ELSE /\ Removed(Tracked \ kept)
                /\ in_use' = {}
                /\ available' = <<>>
                /\ lastCall' = CleanupCall("ok", Tracked # {}, Tracked \cap bad)
    /\ UNCHANGED <<callerVars, threadVars, log, resetInfo, issues>>
    /\ UNCHANGED <<agent, storeVars>>

\* ContainerPool.cleanup with docker refusing nothing
Cleanup == CleanupWith({}, "APIError")

\* --------------------------------------------------------------------- Spec
Next ==
    \/ \E h \in SessionHolders, db \in DbStrings : Acquire(h, db)
    \/ \E h \in SessionHolders, code \in Codes : Execute(h, code)
    \/ \E h \in SessionHolders : Reset(h)
    \/ \E h \in SessionHolders : Release(h, FALSE)
    \/ Cleanup

Spec == Init /\ [][Next]_vars

\* ----------------------------------------------------------------- SpecPool
NextPool ==
    \/ \E h \in Holders, db \in DbStrings : Acquire(h, db)
    \/ \E h \in Holders : Reset(h)
    \/ \E h \in Holders : Release(h, FALSE)
    \/ Cleanup

SpecPool == Init /\ [][NextPool]_vars

\* ------------------------------------------------------------------ SpecApi
\* a Runtime object this pool never issued
ForeignRuntime == NewRuntime(MaxContainers + 1, "A", 0)

\* release() handed the Runtime object the caller already released
ReleaseStale(h) ==
    /\ pc[h] = "idle"
    /\ stale[h] # NoRuntime
    /\ PoolRelease(stale[h])
    /\ UNCHANGED <<callerVars, threadVars, log, resetInfo, issues>>
    /\ UNCHANGED <<agent, storeVars>>

\* release() handed a Runtime object built outside the pool
ReleaseForeign ==
    /\ PoolRelease(ForeignRuntime)
    /\ UNCHANGED <<callerVars, threadVars, log, resetInfo, issues>>
    /\ UNCHANGED <<agent, storeVars>>

NextApi ==
    \/ \E h \in Holders : Acquire(h, "A")
    \/ \E h \in Holders : Release(h, TRUE)
    \/ \E h \in Holders : ReleaseStale(h)
    \/ ReleaseForeign
    \/ Cleanup

SpecApi == Init /\ [][NextApi]_vars

\* ---------------------------------------------------------------- SpecFault
\* SpecPool with a docker daemon that may refuse to stop one sandbox
MaxRefused == 1
Refusals == {bad \in SUBSET Cids : Cardinality(bad) <= MaxRefused}

NextFault ==
    \/ \E h \in Holders : Acquire(h, "A")
    \/ \E h \in Holders : Release(h, FALSE)
    \/ \E bad \in Refusals, err \in {"NotFound", "APIError"} : CleanupWith(bad, err)

SpecFault == Init /\ [][NextFault]_vars

\* ------------------------------------------------------------------ SpecRun
\* CatalogWorkflow.run on parallel request threads, pool calls taken whole.
\* pc[h] is where run is; loc[h].container remembers the sandbox it acquired.
AgentPhases == {"catalog_agent", "summary_agent"}
WritePhases == {"write_catalog", "write_summary"}
Work == AgentPhases \cup WritePhases \cup {"reset"}
\* "sandbox": a docker call of run (execute, reset, release) raised APIError
ExitPaths == {"ok", "agent", "store", "cancel", "sandbox"}

\* where an exception (or the return) leaves the try block: the finally clause
UnwindSkipsFinally(path) ==
    CASE path = "ok"     -> "finally_ok"
      [] path = "agent"  -> "exit_agent"
      [] path = "store"  -> "exit_store"
      [] path = "sandbox" -> "exit_sandbox"
      [] OTHER           -> "exit_cancel"
Unwind(path) ==
    CASE path = "ok"     -> "finally_ok"
      [] path = "agent"  -> "finally_agent"
      [] path = "store"  -> "finally_store"
      [] path = "sandbox" -> "finally_sandbox"
      [] OTHER           -> "finally_cancel"

\* the statement after the finally clause: run returns or re-raises
AfterFinally(label) ==
    CASE label = "finally_ok"     -> "exit_ok"
      [] label = "finally_agent"  -> "exit_agent"
      [] label = "finally_store"  -> "exit_store"
      [] label = "finally_sandbox" -> "exit_sandbox"
      [] OTHER                    -> "exit_cancel"

Finally == {Unwind(path) : path \in ExitPaths}
Exits == {AfterFinally(label) : label \in Finally}

\* runtime = self.container_pool.acquire(...); a refused acquire ends run
RunAcquire(h, db) ==
    /\ pc[h] = "idle"
    /\ rt[h] = NoRuntime
    /\ AcquireCall(h, db)
    /\ IF rt'[h] # NoRuntime
       THEN /\ Goto(h, "catalog_agent")
            /\ SetLoc(h, rt'[h].container, <<>>, 0)
       ELSE UNCHANGED threadVars
    /\ UNCHANGED stale
    /\ UNCHANGED <<agent, storeVars>>

\* an execute_python tool call of the agent that is running (one per agent)
RunExecute(h, code) ==
    /\ pc[h] \in AgentPhases
    /\ rt[h].code_history = <<>>
    /\ ExecuteCall(h, code)
    /\ IF status[rt[h].container] # "running"              \* APIError, not caught
       THEN Goto(h, Unwind("sandbox"))
       ELSE UNCHANGED pc
    /\ UNCHANGED <<poolVars, stale, nextSid, loc, resetInfo, issues, lastCall>>
    /\ UNCHANGED <<agent, storeVars>>

\* the step run is at completes (ok) or raises; cancellation raises anywhere
RunStep(h, path) ==
    /\ pc[h] \in Work \ {"reset"}
    /\ path # "sandbox"
    /\ path = "agent" => pc[h] \in AgentPhases
    /\ path = "store" => pc[h] \in WritePhases
    /\ Goto(h, IF path # "ok" THEN Unwind(path)
               ELSE CASE pc[h] = "catalog_agent" -> "write_catalog"
                      [] pc[h] = "write_catalog" -> "reset"
                      [] pc[h] = "summary_agent" -> "write_summary"
                      [] OTHER                   -> Unwind("ok"))
    /\ UNCHANGED <<poolVars, boxVars, callerVars, loc, histVars>>
    /\ UNCHANGED <<agent, storeVars>>

\* runtime.reset() between the two agents
RunReset(h) ==
    /\ pc[h] = "reset"
    /\ ResetCall(h)
    /\ Goto(h, IF status[rt[h].container] # "running"
               THEN Unwind("sandbox") ELSE "summary_agent")
    /\ UNCHANGED <<poolVars, stale, nextSid, loc, issues, lastCall>>
    /\ UNCHANGED <<agent, storeVars>>

\* finally: self.container_pool.release(runtime)
RunFinally(h) ==
    /\ pc[h] \in Finally
    /\ PoolRelease(rt[h])
    /\ rt' = [rt EXCEPT ![h] = NoRuntime]
    /\ log' = [log EXCEPT ![h] = <<>>]
    /\ resetInfo' = [resetInfo EXCEPT ![h] = NoReset]
    /\ Goto(h, IF rt[h].container \in in_use /\ status[rt[h].container] # "running"
               THEN "exit_sandbox"                          \* release raised
               ELSE AfterFinally(pc[h]))
    /\ UNCHANGED <<stale, nextSid, loc, issues>>
    /\ UNCHANGED <<agent, storeVars>>

\* the request is answered; the thread takes the next request
RunReturn(h) ==
    /\ pc[h] \in Exits
    /\ Goto(h, "idle")
    /\ SetLoc(h, 0, <<>>, 0)
    /\ UNCHANGED <<poolVars, boxVars, callerVars, histVars>>
    /\ UNCHANGED <<agent, storeVars>>

\* one request more than the pool has sandboxes; the code an agent submits
\* here ends the interpreter, so that release also meets a sandbox without one
RunHolders == 1..(pool_size + 1)
RunCodes == {"exit"}

NextRun ==
    \/ \E h \in RunHolders : RunAcquire(h, "A")
    \/ \E h \in RunHolders, code \in RunCodes : RunExecute(h, code)
    \/ \E h \in RunHolders, path \in ExitPaths : RunStep(h, path)
    \/ \E h \in RunHolders : RunReset(h)
    \/ \E h \in RunHolders : RunFinally(h)
    \/ \E h \in RunHolders : RunReturn(h)
    \/ Cleanup

SpecRun == Init /\ [][NextRun]_vars

\* ----------------------------------------------------------------- SpecLost
\* SpecRun with sandboxes that stop on their own (the container's process is
\* killed, docker stop from outside): the container stays, not running, and
\* every exec_run on it raises docker.errors.APIError.
SandboxDies(c) ==
    /\ status[c] = "running"
    /\ status' = [status EXCEPT ![c] = "exited"]
    /\ interps' = [interps EXCEPT ![c] = {}]
    /\ UNCHANGED <<available, in_use, code_input, code_output, callerVars, threadVars,
                   histVars>>
    /\ UNCHANGED <<agent, storeVars>>

\* acquire whose sandbox stops after the status check and before the first
\* exec_run of ContainerRuntime.__init__: the constructor raises out of
\* acquire, after self._in_use.add(container.id)
RunAcquireLost(h, db) ==
    /\ pc[h] = "idle"
    /\ rt[h] = NoRuntime
    /\ \E c \in Cids :
          /\ IF available # <<>>
             THEN /\ c = available[Len(available)]
                  /\ available' = AfterPop(available)
             ELSE /\ UnderPoolSize
                  /\ c \in FreshIds
                  /\ UNCHANGED available
          /\ in_use' = in_use \cup {c}
          /\ status' = [status EXCEPT ![c] = "exited"]
          /\ interps' = [interps EXCEPT ![c] = {}]
    /\ lastCall' = Call("acquire", "APIError", FALSE, TRUE)
    /\ UNCHANGED <<code_input, code_output, callerVars, threadVars, log, resetInfo, issues>>
    /\ UNCHANGED <<agent, storeVars>>

\* as many request threads as the pool has sandboxes; a step of run completes
\* or the agent fails
LostHolders == 1..pool_size
LostPaths == {"ok", "agent"}

NextLost ==
    \/ \E h \in LostHolders : RunAcquire(h, "A")
    \/ \E h \in LostHolders : RunAcquireLost(h, "A")
    \/ \E h \in LostHolders, code \in RunCodes : RunExecute(h, code)
    \/ \E h \in LostHolders, path \in LostPaths : RunStep(h, path)
    \/ \E h \in LostHolders : RunReset(h)
    \/ \E h \in LostHolders : RunFinally(h)
    \/ \E h \in LostHolders : RunReturn(h)
    \/ \E c \in Cids : SandboxDies(c)

SpecLost == Init /\ [][NextLost]_vars

\* ---------------------------------------------------------------- SpecAgent
\* AgentLoop.run on the Runtime of caller 1, against every model behaviour
\* the response sets below allow.
\* the replies of _handle_tool_call
ErrCutExec ==
    <<<<"Error:", 0>>, <<"execute_python call was truncated. Please retry with complete code.", 0>>>>
ErrCutSubmit ==
    <<<<"Error:", 0>>,
      <<"submit_html call was truncated. Please try again with complete HTML content.", 0>>>>
UnknownTool(name) == <<<<"Unknown tool:", 0>>, <<name, 0>>>>

\* what execute_python hands back for the execute call logged as e: the
\* output, or "Execution error:" and the message of the ExecutionError
ExecResult(e) ==
    IF e.result = "ok" THEN e.out
    ELSE IF e.timeout
    THEN <<<<"Execution error:", 0>>, <<"Code execution timeout after 60s", 0>>>>
    ELSE <<<<"Execution error:", 0>>, <<"Code execution failed:", 0>>>> \o e.out

\* the blocks a model may put in a response
BlockKinds ==
    {"text", "exec", "exec_raise", "exec_exit", "exec_cut", "submit", "submit_cut", "other"}
Html(id) == <<<<"html", id>>>>
MkBlock(kind, id) ==
    CASE kind = "text"       -> TextBlock("text")
      [] kind = "exec"       -> ToolUse(id, "execute_python", TRUE, "def1", <<>>)
      [] kind = "exec_raise" -> ToolUse(id, "execute_python", TRUE, "raise", <<>>)
      [] kind = "exec_exit"  -> ToolUse(id, "execute_python", TRUE, "exit", <<>>)
      [] kind = "exec_cut"   -> ToolUse(id, "execute_python", FALSE, "", <<>>)
      [] kind = "submit"     -> ToolUse(id, "submit_html", TRUE, "", Html(id))
      [] kind = "submit_cut" -> ToolUse(id, "submit_html", FALSE, "", <<>>)
      [] OTHER               -> ToolUse(id, "other_tool", FALSE, "", <<>>)
BlockId(it, j) == it * (MaxBlocks + 1) + j
KindSeqs == UNION {[1..m -> BlockKinds] : m \in 0..MaxBlocks}
Content(it, ks) == [j \in 1..Len(ks) |-> MkBlock(ks[j], BlockId(it, j))]

StopReasons == {"end_turn", "tool_use", "max_tokens", "stop_sequence"}
Response(stop, content, tokens) == [stop |-> stop, content |-> content, tokens |-> tokens]

\* The first response is any response; a later one is a tool call the loop
\* answers and goes on from, a plain end of turn, a submit, or a response
\* that costs the whole budget.
VariedCalls == {1}
Varied(it) ==
    {Response(st, Content(it, ks), tk) :
        st \in StopReasons, ks \in KindSeqs, tk \in {1, max_tokens}}
Late(it) ==
    {Response("tool_use", Content(it, <<"other">>), 1),
     Response("end_turn", Content(it, <<"text">>), 1),
     Response("tool_use", Content(it, <<"submit">>), 1),
     Response("tool_use", Content(it, <<"exec", "submit">>), max_tokens)}
Responses(it) == IF it \in VariedCalls THEN Varied(it) ELSE Late(it)

\* while iteration < max_iterations
MoreIterationsOffByOne(it) == it <= max_iterations
MoreIterations(it) == it < max_iterations

\* if self._token_usage["output"] > self.max_tokens
OverBudgetAtLeast(total) == total >= max_tokens
OverBudget(total) == total > max_tokens

\* if response.stop_reason == "end_turn"
EndsTurnNever(stop) == FALSE
EndsTurn(stop) == stop = "end_turn"

\* the stop reasons whose content blocks are dispatched
DispatchedToolUseOnly(stop) == stop = "tool_use"
Dispatched(stop) == stop \in {"tool_use", "max_tokens"}

\* if "content" not in tool_input: ... (the submit is refused)
WellFormedAlways(b) == TRUE
WellFormed(b) == b.has

Fail(a, error) == [a EXCEPT !.phase = "failed", !.error = error]

\* one pass of the loop head: iteration += 1, the model call, the token
\* accounting and budget check, the assistant message, the stop reason
AgentCall(h) ==
    /\ pc[h] = "idle"
    /\ rt[h] # NoRuntime
    /\ agent.phase \in {"new", "loop"}
    /\ MoreIterations(agent.iteration)
    /\ \E resp \in Responses(agent.iteration + 1) :
       LET total == agent.output + resp.tokens
           called == [agent EXCEPT !.iteration = @ + 1, !.output = total,
                                   !.response = resp, !.sent = agent.messages,
                                   !.k = 0, !.tool_results = <<>>,
                                   !.has_tool_calls = FALSE, !.handled = <<>>]
           appended == [called EXCEPT !.messages =
                           Append(@, Message("assistant", resp.content))]
       IN  agent' =
               IF OverBudget(total) THEN Fail(called, "budget")
               ELSE IF EndsTurn(resp.stop) THEN Fail(appended, "end_turn")
               ELSE IF Dispatched(resp.stop)
               THEN [appended EXCEPT !.phase = "dispatch", !.k = 1]
               ELSE Fail(appended, "stop_reason")
    /\ UNCHANGED <<poolVars, boxVars, callerVars, threadVars, histVars, storeVars>>

\* the tool result appended for block b
Answered(b, text) ==
    [agent EXCEPT !.k = @ + 1, !.has_tool_calls = TRUE,
                  !.tool_results = Append(@, ToolResult(b, text)),
                  !.handled = Append(@, b.id)]

\* for block in response.content: the next block, through _handle_tool_call
AgentDispatch(h) ==
    /\ pc[h] = "idle"
    /\ agent.phase = "dispatch"
    /\ agent.k <= Len(agent.response.content)
    /\ LET b == agent.response.content[agent.k] IN
       IF b.type = "tool_use" /\ b.name = "execute_python" /\ b.has
       THEN /\ ExecuteCall(h, b.code)
            /\ LET e == log'[h][Len(log'[h])] IN
               agent' = IF e.result = "APIError"
                        THEN Fail([agent EXCEPT !.has_tool_calls = TRUE,
                                                !.handled = Append(@, b.id)], "docker")
                        ELSE Answered(b, ExecResult(e))
       ELSE /\ UNCHANGED <<boxVars, rt, log>>
            /\ agent' =
                  IF b.type # "tool_use" THEN [agent EXCEPT !.k = @ + 1]
                  ELSE IF b.name = "execute_python" THEN Answered(b, ErrCutExec)
                  ELSE IF b.name = "submit_html"
                  THEN IF WellFormed(b)
                       THEN [agent EXCEPT !.phase = "returned", !.result = b.text,
                                          !.has_tool_calls = TRUE,
                                          !.handled = Append(@, b.id)]
                       ELSE Answered(b, ErrCutSubmit)
                  ELSE Answered(b, UnknownTool(b.name))
    /\ UNCHANGED <<poolVars, stale, nextSid, threadVars, resetInfo, issues, lastCall>>
    /\ UNCHANGED storeVars

\* after the last block: the user message with the tool results (always for
\* tool_use, for max_tokens only if there was a tool call), then the loop test
AgentFinish(h) ==
    /\ pc[h] = "idle"
    /\ agent.phase = "dispatch"
    /\ agent.k > Len(agent.response.content)
    /\ LET answered == IF agent.response.stop = "tool_use" \/ agent.has_tool_calls
                       THEN [agent EXCEPT !.messages =
                                Append(@, Message("user", agent.tool_results))]
                       ELSE agent
       IN  agent' = IF MoreIterations(agent.iteration)
                    THEN [answered EXCEPT !.phase = "loop"]
                    ELSE Fail(answered, "max_iterations")
    /\ UNCHANGED <<poolVars, boxVars, callerVars, threadVars, histVars, storeVars>>

\* the workflow's steps before an agent runs: acquire, and (for the summary
\* agent) runtime.reset()
AgentSetUp(h) ==
    /\ agent.phase = "new"
    /\ \/ Acquire(h, "A")
       \/ Reset(h) /\ resetInfo[h] = NoReset

NextAgent ==
    \/ \E h \in SessionHolders : AgentSetUp(h)
    \/ \E h \in SessionHolders : AgentCall(h)
    \/ \E h \in SessionHolders : AgentDispatch(h)
    \/ \E h \in SessionHolders : AgentFinish(h)

SpecAgent == Init /\ [][NextAgent]_vars

\* ----------------------------------------------------------------- SpecConc
\* The pool calls of parallel request threads (create_catalog is a sync
\* endpoint, so each request runs run() on its own worker thread).  A call is
\* split at its docker calls, where the thread waits and others run; the
\* statements between two docker calls are taken in one step.
RECURSIVE SetToSeq(_)
SetToSeq(S) ==
    IF S = {} THEN <<>>
    ELSE LET m == CHOOSE x \in S : \A y \in S : x <= y
         IN  <<m>> \o SetToSeq(S \ {m})

\* acquire up to its first docker call:
\* if self._available: container = self._available.pop()
\* elif len(self._in_use) < self.pool_size: ... else: raise RuntimeError
AcqTest(t) ==
    /\ pc[t] = "idle" /\ rt[t] = NoRuntime
    /\ (available # <<>> \/ UnderPoolSize) => nextSid <= MaxSessions
    /\ IF available # <<>>
       THEN /\ available' = AfterPop(available)
            /\ SetLoc(t, available[Len(available)], <<>>, 0)
            /\ Goto(t, "acq_reload")
       ELSE IF UnderPoolSize
       THEN /\ Goto(t, "acq_create")
            /\ UNCHANGED <<available, loc>>
       ELSE UNCHANGED <<available, loc, pc>>
    /\ UNCHANGED <<in_use, status, boxVars, callerVars, histVars>>
    /\ UNCHANGED <<agent, storeVars>>

\* container.reload(); container.restart() if not running; self._in_use.add(container.id)
AcqReload(t) ==
    /\ pc[t] = "acq_reload"
    /\ LET c == loc[t].container IN
       IF status[c] = "removed"                               \* reload: NotFound
       THEN /\ Goto(t, "idle")
            /\ SetLoc(t, 0, <<>>, 0)
            /\ UNCHANGED <<in_use, status, interps>>
       ELSE /\ status' = [status EXCEPT ![c] = "running"]
            /\ interps' = [interps EXCEPT ![c] = IF status[c] = "running" THEN @ ELSE {}]
            /\ in_use' = in_use \cup {c}
            /\ Goto(t, "acq_new")
            /\ UNCHANGED loc
    /\ UNCHANGED <<available, code_input, code_output, callerVars, histVars>>
    /\ UNCHANGED <<agent, storeVars>>

\* container = self._create_container(); self._in_use.add(container.id)
AcqCreate(t) ==
    /\ pc[t] = "acq_create"
    /\ \E c \in FreshIds :
        /\ status' = [status EXCEPT ![c] = "running"]
        /\ in_use' = in_use \cup {c}
        /\ SetLoc(t, c, <<>>, 0)
    /\ Goto(t, "acq_new")
    /\ UNCHANGED <<available, boxVars, callerVars, histVars>>
    /\ UNCHANGED <<agent, storeVars>>

\* return ContainerRuntime(container=container, db_connection_string=..., ...)
AcqNew(t, db) ==
    /\ pc[t] = "acq_new"
    /\ LET c == loc[t].container IN
       IF status[c] # "running"                               \* exec_run raises
       THEN UNCHANGED <<interps, callerVars>>
       ELSE /\ rt' = [rt EXCEPT ![t] = NewRuntime(c, db, nextSid)]
            /\ interps' = [interps EXCEPT ![c] = start_interpreter(@, db, nextSid)]
            /\ nextSid' = nextSid + 1
            /\ UNCHANGED stale
    /\ SetLoc(t, 0, <<>>, 0)
    /\ Goto(t, "idle")
    /\ UNCHANGED <<poolVars, code_input, code_output, histVars>>
    /\ UNCHANGED <<agent, storeVars>>

\* release up to runtime.reset():
\* if container_id not in self._in_use: raise ValueError; self._in_use.remove(container_id)
RelTest(t) ==
    /\ pc[t] = "idle" /\ rt[t] # NoRuntime
    /\ IF rt[t].container \in in_use
       THEN /\ in_use' = in_use \ {rt[t].container}
            /\ Goto(t, "rel_reset")
            /\ UNCHANGED rt
       ELSE /\ rt' = [rt EXCEPT ![t] = NoRuntime]
            /\ UNCHANGED <<in_use, pc>>
    /\ UNCHANGED <<available, status, boxVars, stale, nextSid, loc, histVars>>
    /\ UNCHANGED <<agent, storeVars>>

\* runtime.reset(); self._available.append(runtime.container)
RelReset(t) ==
    /\ pc[t] = "rel_reset"
    /\ IF status[rt[t].container] = "running"
       THEN /\ ResetBox(rt[t].container)
            /\ available' = Append(available, rt[t].container)
       ELSE UNCHANGED <<boxVars, available>>                  \* exec_run raises
    /\ rt' = [rt EXCEPT ![t] = NoRuntime]
    /\ Goto(t, "idle")
    /\ UNCHANGED <<in_use, status, stale, nextSid, loc, histVars>>
    /\ UNCHANGED <<agent, storeVars>>

\* container.stop(timeout=5); container.remove()
Remove(c) ==
    /\ status' = [status EXCEPT ![c] = "removed"]
    /\ interps' = [interps EXCEPT ![c] = {}]
    /\ code_input' = [code_input EXCEPT ![c] = "absent"]
    /\ code_output' = [code_output EXCEPT ![c] = NoFile]

\* cleanup: for container_id in list(self._in_use):
CuStart(t) ==
    /\ pc[t] = "idle"
    /\ SetLoc(t, 0, SetToSeq(in_use), 1)
    /\ Goto(t, "cu_in_use")
    /\ UNCHANGED <<poolVars, boxVars, callerVars, histVars>>
    /\ UNCHANGED <<agent, storeVars>>

\* get, stop, remove (NotFound passes); self._in_use.discard(container_id)
CuInUse(t) ==
    /\ pc[t] = "cu_in_use"
    /\ IF loc[t].i <= Len(loc[t].ids)
       THEN LET c == loc[t].ids[loc[t].i] IN
            /\ IF status[c] = "removed" THEN UNCHANGED <<status, boxVars>> ELSE Remove(c)
            /\ in_use' = in_use \ {c}
            /\ SetLoc(t, 0, loc[t].ids, loc[t].i + 1)
            /\ UNCHANGED pc
       ELSE /\ SetLoc(t, 0, <<>>, 1)
            /\ Goto(t, "cu_available")
            /\ UNCHANGED <<in_use, status, boxVars>>
    /\ UNCHANGED <<available, callerVars, histVars>>
    /\ UNCHANGED <<agent, storeVars>>

\* for container in self._available: stop, remove (APIError passes);
\* then self._available.clear()
CuAvailable(t) ==
    /\ pc[t] = "cu_available"
    /\ IF loc[t].i <= Len(available)
       THEN LET c == available[loc[t].i] IN
            /\ IF status[c] = "removed" THEN UNCHANGED <<status, boxVars>> ELSE Remove(c)
            /\ SetLoc(t, 0, <<>>, loc[t].i + 1)
            /\ UNCHANGED <<pc, available>>
       ELSE /\ SetLoc(t, 0, <<>>, 0)
            /\ available' = <<>>
            /\ Goto(t, "done")
            /\ UNCHANGED <<status, boxVars>>
    /\ UNCHANGED <<in_use, callerVars, histVars>>
    /\ UNCHANGED <<agent, storeVars>>

NextConc ==
    \/ \E t \in Holders : AcqTest(t)
    \/ \E t \in Holders : AcqReload(t)
    \/ \E t \in Holders : AcqCreate(t)
    \/ \E t \in Holders : AcqNew(t, "A")
    \/ \E t \in Holders : RelTest(t)
    \/ \E t \in Holders : RelReset(t)
    \/ CuStart(0)
    \/ CuInUse(0)
    \/ CuAvailable(0)

SpecConc == Init /\ [][NextConc]_vars

\* ---------------------------------------------------------------- SpecStore
\* CatalogWorkflow.run on parallel request threads against the bucket of one
\* prefix.  The clock is read when run starts; it has moved on by any amount
\* since it was read last.
MaxRuns == 2
FlowHolders == 1..pool_size

\* the clock read at tick t
ClockRead(t) ==
    /\ t \in now..MaxNow
    /\ now' = t

\* the statements of run inside the try block, in order: the previous
\* context, the cataloging agent, the two catalog writes, reset, the summary
\* agent, the two summary writes
StepOrderResetFirst ==
    <<"context", "catalog_agent", "reset", "catalog_script.py", "catalog.html",
      "summary_agent", "summary_script.py", "recent_summary.html">>
StepOrderSummaryFirst ==
    <<"context", "catalog_agent", "catalog_script.py", "catalog.html", "reset",
      "summary_agent", "recent_summary.html", "summary_script.py">>
StepOrder ==
    <<"context", "catalog_agent", "catalog_script.py", "catalog.html", "reset",
      "summary_agent", "summary_script.py", "recent_summary.html">>

IndexOf(step) == CHOOSE i \in 1..Len(StepOrder) : StepOrder[i] = step
\* the statement after step; after the last one run returns through finally
StepAfter(step) ==
    IF IndexOf(step) < Len(StepOrder) THEN StepOrder[IndexOf(step) + 1] ELSE "finally"
FlowSteps == {StepOrder[i] : i \in 1..Len(StepOrder)}

\* the html an agent of call a submits: "catalog_agent" or "summary_agent"
Submitted(a, step) == Html(IF step = "catalog_agent" THEN 2 * a ELSE 2 * a + 1)

\* the step is done: on to the next statement
Done(h, step) ==
    /\ Goto(h, StepAfter(step))
    /\ runs' = [runs EXCEPT ![wf[h].run].trail = Append(@, step)]
\* the step raised: on to the finally clause
Raised(h) ==
    /\ Goto(h, "finally")
    /\ wf' = [wf EXCEPT ![h].failed = TRUE]
    /\ UNCHANGED runs

\* the calls of run that have returned their result
Returned == {a \in 1..Len(runs) : runs[a].state = "ok"}
\* the invocations whose last call was cut short by a crash
CutShort ==
    {runs[a].inv : a \in {b \in 1..Len(runs) :
        runs[b].state = "crashed" /\ \A c \in (b + 1)..Len(runs) : runs[c].inv # runs[b].inv}}
Invocations == {runs[a].inv : a \in 1..Len(runs)}

\* run is called: timestamp = generate_timestamp(); the prompts; acquire.
\* A first call of a new invocation, or the retry of one that was cut short.
FlowStart(h, inv, t) ==
    /\ pc[h] = "idle"
    /\ rt[h] = NoRuntime
    /\ \A g \in 1..(h - 1) : pc[g] # "idle"       \* the first idle worker thread
    /\ Len(runs) < MaxRuns
    /\ ClockRead(t)
    /\ inv \in CutShort \cup {Cardinality(Invocations) + 1}
    /\ AcquireCall(h, "A")
    /\ LET a == Len(runs) + 1
           ts == generate_timestamp(t)
           rec == RunRecord(inv, ts, Returned)
       IN  IF rt'[h] # NoRuntime
           THEN /\ Goto(h, StepOrder[1])
                /\ wf' = [wf EXCEPT ![h] = [NoWorkflow EXCEPT !.run = a, !.timestamp = ts]]
                /\ runs' = Append(runs, rec)
           ELSE /\ runs' = Append(runs, [rec EXCEPT !.state = "failed"])
                /\ UNCHANGED <<pc, wf>>
    /\ UNCHANGED <<stale, loc, agent, chan, posted, store>>

\* generate_context_summary(storage, prefix, timestamp=None): the newest
\* directory of the prefix, and whatever of the four artifacts it holds
Assemble(st) ==
    LET timestamps == list_timestamps(st, 1) IN
    IF timestamps = <<>> THEN NoRead
    ELSE LET ts == timestamps[1]
             found == {f \in Artifacts : st[ArtifactKey(ts, f)] # NoObject}
             writers == {st[ArtifactKey(ts, f)].by : f \in found}
         IN  [ts |-> ts, found |-> found, writers |-> writers,
              unfinished |-> {a \in writers : runs[a].state # "ok"}]

\* previous_context = self._get_previous_context(s3_prefix)
FlowContext(h) ==
    /\ pc[h] = "context"
    /\ Goto(h, StepAfter("context"))
    /\ wf' = [wf EXCEPT ![h].previous_context = Assemble(store)]
    /\ runs' = [runs EXCEPT ![wf[h].run].read = Assemble(store),
                            ![wf[h].run].trail = Append(@, "context")]
    /\ UNCHANGED <<poolVars, boxVars, callerVars, loc, log, resetInfo, issues, lastCall,
                   agent, chan, posted, store, now>>

\* agent.run: the cataloging agent makes one execute_python call, the summary
\* agent none; then the agent submits its html, or run raises
FlowAgent(h, ok) ==
    /\ pc[h] \in {"catalog_agent", "summary_agent"}
    /\ IF pc[h] = "catalog_agent" THEN ExecuteCall(h, "def1")
       ELSE UNCHANGED <<boxVars, rt, log>>
    /\ IF ok
       THEN /\ Goto(h, StepAfter(pc[h]))
            /\ runs' = [runs EXCEPT ![wf[h].run].trail = Append(@, pc[h]),
                                    ![wf[h].run].sessions = Append(@, get_session_script(rt'[h]))]
            /\ wf' = [wf EXCEPT ![h] =
                  IF pc[h] = "catalog_agent"
                  THEN [@ EXCEPT !.catalog_html = Submitted(wf[h].run, pc[h])]
                  ELSE [@ EXCEPT !.summary_html = Submitted(wf[h].run, pc[h])]]
       ELSE Raised(h)
    /\ UNCHANGED <<poolVars, stale, nextSid, loc, resetInfo, issues, lastCall,
                   agent, chan, posted, store, now>>

\* what run hands the store for filename
Written(h, filename) ==
    CASE filename = "catalog.html"        -> wf[h].catalog_html
      [] filename = "recent_summary.html" -> wf[h].summary_html
      [] OTHER                            -> get_session_script(rt[h])

\* write_script / write_html of the next artifact; put_object may raise
FlowWrite(h, ok) ==
    /\ pc[h] \in Artifacts
    /\ IF ok
       THEN /\ store' = put_object(store, ArtifactKey(wf[h].timestamp, pc[h]),
                                   Object(wf[h].run, Written(h, pc[h])))
            /\ Done(h, pc[h])
            /\ UNCHANGED wf
       ELSE /\ Raised(h)
            /\ UNCHANGED store
    /\ UNCHANGED <<poolVars, boxVars, callerVars, loc, log, resetInfo, issues, lastCall,
                   agent, chan, posted, now>>

\* runtime.reset()
FlowReset(h) ==
    /\ pc[h] = "reset"
    /\ ResetCall(h)
    /\ Done(h, "reset")
    /\ UNCHANGED <<poolVars, stale, nextSid, loc, issues, lastCall, agent, chan, posted, store, now, wf>>

\* finally: self.container_pool.release(runtime); run returns or re-raises
FlowFinally(h) ==
    /\ pc[h] = "finally"
    /\ PoolRelease(rt[h])
    /\ rt' = [rt EXCEPT ![h] = NoRuntime]
    /\ log' = [log EXCEPT ![h] = <<>>]
    /\ resetInfo' = [resetInfo EXCEPT ![h] = NoReset]
    /\ Goto(h, "idle")
    /\ runs' = [runs EXCEPT ![wf[h].run].state = IF wf[h].failed THEN "failed" ELSE "ok"]
    /\ wf' = [wf EXCEPT ![h] = NoWorkflow]
    /\ UNCHANGED <<stale, nextSid, loc, issues, agent, chan, posted, store, now>>

NextStore ==
    \/ \E h \in FlowHolders, inv \in 1..MaxRuns, t \in 0..MaxNow : FlowStart(h, inv, t)
    \/ \E h \in FlowHolders : FlowContext(h)
    \/ \E h \in FlowHolders, ok \in BOOLEAN : FlowAgent(h, ok)
    \/ \E h \in FlowHolders, ok \in BOOLEAN : FlowWrite(h, ok)
    \/ \E h \in FlowHolders : FlowReset(h)
    \/ \E h \in FlowHolders : FlowFinally(h)

SpecStore == Init /\ [][NextStore]_vars

\* ---------------------------------------------------------------- SpecRetry
\* One request thread, and a process that may crash: the caller then calls
\* run again for the invocation that was cut short.
\* the process dies and is started again: a new, empty pool; the sandboxes
\* stay behind in docker; every run in progress is cut short
Crash ==
    /\ \E h \in FlowHolders : pc[h] # "idle"
    /\ available' = <<>>
    /\ in_use' = {}
    /\ rt' = [h \in Holders |-> NoRuntime]
    /\ pc' = [t \in Threads |-> "idle"]
    /\ wf' = [h \in Holders |-> NoWorkflow]
    /\ log' = [h \in Holders |-> <<>>]
    /\ resetInfo' = [h \in Holders |-> NoReset]
    /\ runs' = [a \in 1..Len(runs) |->
                   IF runs[a].state = "running" THEN [runs[a] EXCEPT !.state = "crashed"]
                   ELSE runs[a]]
    /\ UNCHANGED <<status, boxVars, stale, nextSid, loc, issues, lastCall, agent, chan, posted, store, now>>

NextRetry ==
    \/ \E inv \in 1..MaxRuns, t \in 0..MaxNow : FlowStart(1, inv, t)
    \/ FlowContext(1)
    \/ \E ok \in BOOLEAN : FlowAgent(1, ok)
    \/ \E ok \in BOOLEAN : FlowWrite(1, ok)
    \/ FlowReset(1)
    \/ FlowFinally(1)
    \/ Crash

SpecRetry == Init /\ [][NextRetry]_vars

\* ------------------------------------------------------------------- claims
Held == {h \in Holders : rt[h] # NoRuntime}
Defs == {"def1", "def2"}
BoundBy(code) == IF code = "def1" THEN 1 ELSE 2

\* every call logged for h ended the way execute documents: a return or an
\* ExecutionError (code raised, or no output within the timeout)
Documented(h) == \A k \in 1..Len(log[h]) : log[h][k].result # "APIError"

\* C1: after N execute calls without reset, however each ended (output,
\* ExecutionError from the code, ExecutionError from the timeout), both
\* histories have length N.
C1_HistoriesCountCalls ==
    \A h \in Held :
        Documented(h) =>
            /\ Len(rt[h].code_history) = Len(log[h])
            /\ Len(rt[h].output_history) = Len(log[h])

RECURSIVE ExpectedScript(_, _)
ExpectedScript(i, calls) ==
    IF i > Len(calls) THEN <<>>
    ELSE ScriptBlock(i, calls[i].code, calls[i].out) \o ExpectedScript(i + 1, calls)

\* C2: the session script has one block per execute call, in order, and block
\* i pairs the i-th code with the output of that same call.
C2_ScriptPairsEveryCall ==
    \A h \in Held :
        Documented(h) => get_session_script(rt[h]) = ExpectedScript(1, log[h])

\* C3: of two consecutive execute calls without reset, the second runs with
\* the binding the first made; print(x) after x = v returns v.
C3_StatePersists ==
    \A h \in Held : \A k \in 1..(Len(log[h]) - 1) :
        LET a == log[h][k]
            b == log[h][k + 1]
        IN  (a.code \in Defs /\ a.result = "ok" /\ b.result # "APIError") =>
                /\ b.ran /\ b.pre = BoundBy(a.code)
                /\ b.code = "print" => b.result = "ok" /\ b.out = <<Txt(BoundBy(a.code))>>

C3_Witness ==
    \E h \in Held :
        /\ Len(log[h]) >= 2
        /\ log[h][1].code = "def2" /\ log[h][1].result = "ok"
        /\ log[h][2].code = "print" /\ log[h][2].out = <<Txt(2)>>

\* C4: after reset both histories and the session script are empty, and an
\* execute that references a name bound before the reset raises ExecutionError
\* (on a sandbox that is still running; a stopped sandbox fails in docker).
C4_ResetIsTotal ==
    \A h \in Held :
        resetInfo[h].done =>
            /\ log[h] = <<>> =>
                   /\ get_code_history(rt[h]) = <<>>
                   /\ rt[h].output_history = <<>>
                   /\ get_session_script(rt[h]) = <<>>
            /\ resetInfo[h].bound =>
                   \A k \in 1..Len(log[h]) :
                       (/\ log[h][k].code = "print"
                        /\ log[h][k].result # "APIError"
                        /\ \A j \in 1..(k - 1) : ~(log[h][j].ran /\ log[h][j].code \in Defs))
                       => log[h][k].result = "ExecutionError"

C4_Witness ==
    \E h \in Held :
        /\ resetInfo[h].done /\ resetInfo[h].bound
        /\ \E k \in 1..Len(log[h]) :
               log[h][k].code = "print" /\ log[h][k].result = "ExecutionError"

\* C5: after reset on a Runtime that is still issued, execute is run by a live
\* interpreter: code that terminates gets its output instead of the timeout.
C5_ExecuteAfterResetIsServed ==
    \A h \in Held :
        (resetInfo[h].done /\ rt[h].container \in in_use) =>
            \A k \in 1..Len(log[h]) :
                log[h][k].result # "APIError" =>
                    /\ log[h][k].ran
                    /\ log[h][k].code \notin {"exit", "loop"} => ~log[h][k].timeout

\* C6: on a sandbox issued again with another db string, every interpreter
\* alive in it carries the db string (and session) of the Runtime it is issued
\* with now, and so does every interpreter that served one of its executes.
C6_EnvironmentSwitches ==
    \A h \in Held :
        LET r == rt[h]
            c == r.container
            asked == issues[c][Len(issues[c])]
        IN  /\ asked.sid = r.sid
            /\ \A i \in interps[c] : i.db = asked.db /\ i.sid = r.sid
            /\ \A k \in 1..Len(log[h]) : log[h][k].ran => log[h][k].db = asked.db

C6_Witness ==
    \E h \in Held :
        LET c == rt[h].container IN
        /\ Len(issues[c]) >= 2
        /\ issues[c][Len(issues[c]) - 1].db = "A"
        /\ rt[h].db = "B"
        /\ \E k \in 1..Len(log[h]) : log[h][k].result = "ok" /\ log[h][k].db = "B"

\* the sandboxes created and not yet removed
Live == {c \in Cids : status[c] \in {"running", "exited"}}

\* C7: at most pool_size sandboxes are created and not removed; acquire takes
\* an idle sandbox when there is one, and creates one only when none is idle
\* and fewer than pool_size are issued.
C7_PoolBound ==
    /\ [](Cardinality(Live) <= pool_size)
    /\ [][(\E c \in Cids : status[c] = "none" /\ status'[c] # "none")
              => available = <<>> /\ Cardinality(in_use) < pool_size]_vars
    /\ [][(nextSid' # nextSid /\ available # <<>>)
              => /\ Len(available') = Len(available) - 1
                 /\ \A c \in Cids : status[c] = "none" => status'[c] = "none"]_vars

C7_Witness ==
    /\ Cardinality(Live) = pool_size
    /\ lastCall = Call("acquire", "RuntimeError", FALSE, FALSE)
    /\ \E c \in Cids : Len(issues[c]) >= 2

\* C8: with acquire, release and cleanup running on parallel threads, the
\* pool still never has more than pool_size sandboxes created and not removed.
C8_ConcurrentPoolBound == Cardinality(Live) <= pool_size

\* C9: release(r) for a Runtime that is not the one currently issued for its
\* sandbox fails with an error, resets nothing and leaves idle and in_use as
\* they were.
C9_ReleaseVerifiesIssued ==
    (lastCall.op = "release" /\ ~lastCall.issued) =>
        lastCall.outcome = "ValueError" /\ ~lastCall.changed

\* C10: no two callers hold Runtimes on the same running sandbox: a sandbox
\* that is issued is not issued again before its holder has released it.
C10_SingleOwner ==
    \A h1 \in Held : \A h2 \in Held :
        (h1 # h2 /\ status[rt[h1].container] = "running")
            => rt[h1].container # rt[h2].container

\* the pool has no idle sandbox and pool_size issued ones
Exhausted == available = <<>> /\ Cardinality(in_use) = pool_size

\* C11: acquire on an exhausted pool ends at once with the pool-exhausted
\* RuntimeError, issues and creates nothing and leaves idle and in_use as they
\* were; acquire is refused in no other state, so it succeeds again as soon as
\* one issued Runtime has been released.
C11_ExhaustedFailsFast ==
    /\ [][Exhausted =>
            /\ \A h \in Holders : rt[h] = NoRuntime => rt'[h] = NoRuntime
            /\ \A c \in Cids : status[c] = "none" => status'[c] = "none"
            /\ (lastCall'.op = "acquire" /\ lastCall' # lastCall) =>
                   /\ lastCall'.outcome = "RuntimeError"
                   /\ UNCHANGED <<poolVars, boxVars, rt>>]_vars
    /\ [][(lastCall'.outcome = "RuntimeError" /\ lastCall' # lastCall) => Exhausted]_vars
    /\ [][(Exhausted /\ \E h \in Held : rt[h].container \in in_use /\ rt'[h] = NoRuntime)
              => (available' # <<>> \/ Cardinality(in_use') < pool_size)]_vars

C11_Witness ==
    /\ Exhausted
    /\ lastCall = Call("acquire", "RuntimeError", FALSE, FALSE)
    /\ \A c \in in_use : \E h \in Held : rt[h].container = c

\* C12: cleanup stops and removes every sandbox the pool tracks, idle or
\* issued, and leaves idle and in_use empty; a sandbox docker refuses to stop
\* does not keep the others from being stopped and removed.
C12_CleanupRemovesAll ==
    [][lastCall'.op = "cleanup" =>
          /\ in_use' = {}
          /\ available' = <<>>
          /\ \A c \in Tracked \ lastCall'.refused : status'[c] = "removed"]_vars

\* C13: run leaves its work only through the finally clause, on every exit
\* path, and when the finally clause is done the Runtime is released: its
\* sandbox is out of in_use and on the idle list.
C13_ReleasedOnEveryExit ==
    /\ [][\A h \in Holders :
            (pc[h] \in Work /\ pc'[h] \notin Work) => pc'[h] \in Finally]_vars
    /\ [][\A h \in Holders :
            pc'[h] \in Exits /\ pc[h] \notin Exits =>
                /\ rt'[h] = NoRuntime
                /\ loc[h].container \notin in_use'
                /\ \E k \in 1..Len(available') : available'[k] = loc[h].container]_vars

C13_Witness ==
    \E h \in Holders : \E g \in Held :
        /\ pc[h] = "exit_store"
        /\ pc[g] = "summary_agent"
        /\ loc[h].container \notin in_use
        /\ available = <<loc[h].container>>

\* ------------------------------------------------------- claims on AgentLoop
IsToolUse(b) == b.type = "tool_use"
IsSubmit(b) == b.type = "tool_use" /\ b.name = "submit_html" /\ b.has
ToolUses(content) == SelectSeq(content, IsToolUse)
HasSubmit(content) == \E j \in 1..Len(content) : IsSubmit(content[j])
FirstSubmit(content) ==
    content[CHOOSE j \in 1..Len(content) :
                IsSubmit(content[j]) /\ \A i \in 1..(j - 1) : ~IsSubmit(content[i])]
Ids(blocks) == [j \in 1..Len(blocks) |-> blocks[j].id]
Ended == agent.phase \in {"returned", "failed"}

\* no response of the run so far carried a well-formed submit
NeverSubmitted ==
    /\ ~HasSubmit(agent.response.content)
    /\ \A m \in 1..Len(agent.messages) :
           agent.messages[m].role = "assistant" => ~HasSubmit(agent.messages[m].content)

\* the transcript after a response whose tool-use blocks were all answered:
\* what was sent, the assistant message, one user message with the results
AnsweredTranscript ==
    /\ agent.handled = Ids(ToolUses(agent.response.content))
    /\ Len(agent.messages) = Len(agent.sent) + 2
    /\ SubSeq(agent.messages, 1, Len(agent.sent)) = agent.sent
    /\ agent.messages[Len(agent.sent) + 1] = Message("assistant", agent.response.content)
    /\ LET reply == agent.messages[Len(agent.sent) + 2] IN
       /\ reply.role = "user"
       /\ Len(reply.content) = Len(ToolUses(agent.response.content))
       /\ \A j \in 1..Len(reply.content) :
              /\ reply.content[j].type = "tool_result"
              /\ reply.content[j].id = ToolUses(agent.response.content)[j].id

\* C14: run returns v only when the response being handled holds a
\* well-formed submit (one with a content field) whose content is v.
C14_ReturnsOnlySubmitted ==
    agent.phase = "returned" =>
        /\ \E j \in 1..Len(agent.response.content) :
               /\ IsSubmit(agent.response.content[j])
               /\ agent.response.content[j].text = agent.result
        /\ agent.messages[Len(agent.messages)] =
               Message("assistant", agent.response.content)

C14_Witness ==
    /\ agent.phase = "returned"
    /\ agent.k = 2
    /\ agent.response.content[1].name = "submit_html"
    /\ ~agent.response.content[1].has
    /\ agent.result = Html(agent.response.content[2].id)

\* C15 as claimed: once a response holds a well-formed submit of x, run
\* ends by returning x.
C15_SubmitIsReturned ==
    (agent.phase # "dispatch" /\ HasSubmit(agent.response.content)) =>
        /\ agent.phase = "returned"
        /\ agent.result = FirstSubmit(agent.response.content).text

\* C15 amended: a response that holds a well-formed submit makes run return
\* the content of the first such submit, provided the response stops with
\* tool_use or max_tokens and keeps the output total within the budget.
C15_SubmitWithinBudgetIsReturned ==
    (/\ agent.phase # "dispatch"
     /\ HasSubmit(agent.response.content)
     /\ agent.response.stop \in {"tool_use", "max_tokens"}
     /\ agent.output <= max_tokens
     /\ agent.error # "docker") =>
        /\ agent.phase = "returned"
        /\ agent.result = FirstSubmit(agent.response.content).text

C15_Witness ==
    /\ agent.phase = "returned"
    /\ agent.response.stop = "max_tokens"
    /\ agent.output = max_tokens
    /\ agent.k = 2
    /\ agent.response.content[1].name = "execute_python"

\* C16 as claimed: at most 50 model calls, and a run whose model never sent a
\* well-formed submit fails with the max-iterations or the token-budget error.
C16_FailsByCapOrBudget ==
    /\ agent.iteration <= max_iterations
    /\ (Ended /\ NeverSubmitted) =>
           agent.phase = "failed" /\ agent.error \in {"max_iterations", "budget"}

\* C16 amended: at most 50 model calls, and a run whose model never sent a
\* well-formed submit never returns: it fails with the max-iterations, the
\* token-budget, the ended-without-submit or the unexpected-stop-reason error.
C16_FailsWithoutSubmit ==
    /\ agent.iteration <= max_iterations
    /\ (agent.phase = "loop" => agent.iteration < max_iterations)
    /\ (Ended /\ NeverSubmitted /\ agent.error # "docker") =>
           /\ agent.phase = "failed"
           /\ agent.error \in {"max_iterations", "budget", "end_turn", "stop_reason"}

C16_Witness ==
    /\ agent.phase = "failed"
    /\ agent.error = "max_iterations"
    /\ agent.iteration = max_iterations
    /\ NeverSubmitted

\* C17: each response adds its output tokens to the total; the run fails with
\* the budget error exactly when the total exceeds max_tokens, on that
\* response and before any of its blocks is handled: no execute, no result.
C17_BudgetCheckedFirst ==
    /\ [][agent'.iteration # agent.iteration =>
            /\ agent'.output = agent.output + agent'.response.tokens
            /\ agent'.output > max_tokens => UNCHANGED <<rt, boxVars, log>>]_vars
    /\ [](agent.output > max_tokens <=> agent.error = "budget")
    /\ [](agent.error = "budget" =>
            /\ agent.phase = "failed"
            /\ agent.handled = <<>>
            /\ agent.result = <<>>
            /\ agent.messages = agent.sent)

C17_Witness ==
    /\ agent.error = "budget"
    /\ agent.iteration = 2
    /\ HasSubmit(agent.response.content)
    /\ agent.response.content[1].name = "execute_python"

\* C18 as claimed: a response that stops with end_turn makes run fail with
\* the ended-without-submit error at once, no block handled.
C18_EndTurnFails ==
    agent.response.stop = "end_turn" =>
        /\ agent.phase = "failed" /\ agent.error = "end_turn"
        /\ agent.handled = <<>>

\* C18 amended: the same, for an end_turn response that keeps the output
\* total within the budget (the budget check comes first).
C18_EndTurnWithinBudgetFails ==
    (agent.response.stop = "end_turn" /\ agent.output <= max_tokens) =>
        /\ agent.phase = "failed" /\ agent.error = "end_turn"
        /\ agent.handled = <<>>
        /\ agent.result = <<>>

C18_Witness ==
    /\ agent.error = "end_turn"
    /\ agent.response.stop = "end_turn"
    /\ ToolUses(agent.response.content) # <<>>
    /\ agent.handled = <<>>

\* C19 as claimed: a tool_use response without a well-formed submit has each
\* of its k tool-use blocks handled once, in order, the transcript grows by
\* the assistant message and one user message with the k results carrying
\* the blocks' ids in order, and the loop goes on to the next model call.
C19_ToolUseAnswered ==
    (/\ agent.response.stop = "tool_use"
     /\ ~HasSubmit(agent.response.content)
     /\ agent.phase # "dispatch") =>
        agent.phase = "loop" /\ AnsweredTranscript

\* C19 amended: the same, for a response that keeps the output total within
\* the budget; the next model call follows unless this was the 50th.
C19_ToolUseWithinBudgetAnswered ==
    (/\ agent.response.stop = "tool_use"
     /\ ~HasSubmit(agent.response.content)
     /\ agent.phase # "dispatch"
     /\ agent.output <= max_tokens
     /\ agent.error # "docker") =>
        /\ AnsweredTranscript
        /\ IF agent.iteration < max_iterations
           THEN agent.phase = "loop"
           ELSE agent.phase = "failed" /\ agent.error = "max_iterations"

C19_Witness ==
    /\ agent.phase = "loop"
    /\ agent.response.stop = "tool_use"
    /\ Len(agent.handled) = MaxBlocks
    /\ agent.response.content[2].name = "execute_python"
    /\ agent.response.content[2].has

\* C20: a max_tokens response with tool-use blocks is answered as a tool_use
\* response is; one without leaves the transcript as it was sent, so the next
\* model call gets the transcript the truncated call got.
C20_TruncatedTextDiscarded ==
    (/\ agent.response.stop = "max_tokens"
     /\ ~HasSubmit(agent.response.content)
     /\ agent.phase = "loop") =>
        IF ToolUses(agent.response.content) # <<>>
        THEN AnsweredTranscript
        ELSE agent.messages = agent.sent

\* the block the loop is about to hand to _handle_tool_call
Dispatching == agent.phase = "dispatch" /\ agent.k <= Len(agent.response.content)
Current == agent.response.content[agent.k]
\* a tool-use block of execute_python / submit_html without its code / content
IsCut(b) == b.type = "tool_use" /\ b.name \in {"execute_python", "submit_html"} /\ ~b.has
IsExec(b) == b.type = "tool_use" /\ b.name = "execute_python" /\ b.has
LastResult(a) == a.tool_results[Len(a.tool_results)]
\* a truncated call of the response was answered, and the response is done with
CutAnswered ==
    /\ agent.phase # "dispatch"
    /\ \E j \in 1..Len(agent.response.content) :
          /\ IsCut(agent.response.content[j])
          /\ \E n \in 1..Len(agent.handled) : agent.handled[n] = agent.response.content[j].id
\* handing a truncated call to _handle_tool_call: an "Error:" result with the
\* block's id, no execute, and the loop still in this response
CutStep ==
    (Dispatching /\ IsCut(Current)) =>
        /\ agent'.phase = "dispatch"
        /\ Len(agent'.tool_results) = Len(agent.tool_results) + 1
        /\ LastResult(agent').id = Current.id
        /\ LastResult(agent').text[1] = <<"Error:", 0>>
        /\ LastResult(agent').text \in {ErrCutExec, ErrCutSubmit}
        /\ UNCHANGED <<rt, boxVars, log>>

\* C21 as claimed: a truncated execute or submit call gets a tool result that
\* begins "Error:" and asks for a retry, execute is not called, the loop does
\* not end and the next iteration issues a model call.
C21_TruncatedCallRetried ==
    /\ [][CutStep]_vars
    /\ [](CutAnswered => agent.phase = "loop")

\* C21 amended: the same, the next model call following unless a later block
\* of the same response is a well-formed submit or this was the 50th call.
C21_TruncatedCallAnswered ==
    /\ [][CutStep]_vars
    /\ [](CutAnswered =>
            /\ agent.phase \in {"loop", "returned", "failed"}
            /\ agent.phase = "returned" => HasSubmit(agent.response.content)
            /\ agent.phase = "failed" =>
                  \/ agent.error = "max_iterations" /\ agent.iteration = max_iterations
                  \/ agent.error = "docker")

C21_Witness ==
    /\ agent.phase = "loop"
    /\ Len(agent.handled) = 2
    /\ agent.response.content[1].name = "execute_python"
    /\ agent.response.content[2].name = "submit_html"
    /\ IsCut(agent.response.content[1])
    /\ IsCut(agent.response.content[2])
    /\ agent.response.stop = "max_tokens"
    /\ rt[1].code_history = <<>>

\* C22: an execute that raises ExecutionError (the code raised, or no output
\* file came in time) is answered with a tool result that begins "Execution
\* error:" and carries the payload, the loop goes on, every interpreter of the
\* sandbox is still there, idle, with its namespace, and later execute calls
\* on the Runtime are served.
C22_ExecutionErrorRecovered ==
    /\ [][(Dispatching /\ IsExec(Current)
            /\ log'[1][Len(log'[1])].result = "ExecutionError") =>
            /\ agent'.phase = "dispatch"
            /\ LastResult(agent').id = Current.id
            /\ LastResult(agent').text = ExecResult(log'[1][Len(log'[1])])
            /\ LastResult(agent').text[1] = <<"Execution error:", 0>>
            /\ \A i \in interps[rt[1].container] :
                  i \in interps'[rt[1].container] /\ ~i.busy]_vars
    /\ [](\A m \in 1..Len(log[1]) : \A k \in 1..(m - 1) :
            log[1][k].result = "ExecutionError" => log[1][m].ran)

\* ------------------------------------------------------------- SpecComments
\* POST /catalog/comment: write_comment on the Runs of one prefix, by two
\* users, and the listing of a Run's comments.
MaxComments == 2

\* the file name f"{user}-{comment_timestamp}.txt" as its fields between "-":
\* the user, then year, month and the rest of "%Y-%m-%dT%H:%M:%SZ"
FileName(user, date) == <<user, "%Y", "%m", date>>

\* S3Storage.write_comment(prefix, timestamp, user, comment), the clock read at t
WriteComment(ts, user, t) ==
    /\ Len(posted) < MaxComments
    /\ ClockRead(t)
    /\ generate_timestamp(t) \in Stamps
    /\ LET comment_timestamp == generate_timestamp(t)
           n == Len(posted) + 1
       IN  /\ store' = put_object(store, CommentKey(ts, user, comment_timestamp),
                                  Object(n, <<<<"comment", n>>>>))
           /\ posted' = Append(posted, [ts |-> ts, user |-> user, date |-> comment_timestamp])
    /\ UNCHANGED <<poolVars, boxVars, callerVars, threadVars, histVars, agent, wf, runs, chan>>

\* the keys under f"{prefix}/{timestamp}/comments/", in the order the listing
\* gives them: ascending by key, that is by user and then date
UserRank(u) == IF u = "alice" THEN 1 ELSE 2
CommentKeys(st, ts) ==
    {k \in Keys : k.ts = ts /\ k.dir = "comments" /\ st[k] # NoObject}
RECURSIVE KeysAscending(_)
KeysAscending(S) ==
    IF S = {} THEN <<>>
    ELSE LET m == CHOOSE x \in S : \A y \in S :
                      \/ UserRank(x.user) < UserRank(y.user)
                      \/ UserRank(x.user) = UserRank(y.user) /\ x.date <= y.date
         IN  <<m>> \o KeysAscending(S \ {m})

\* parts = filename.rsplit("-", 1); user = parts[0]; date = parts[1] less ".txt"
ParseFileName(name) ==
    [user |-> SubSeq(name, 1, Len(name) - 1), date |-> name[Len(name)]]

\* comments.sort(key=lambda x: x["date"], reverse=True): stable, newest first
RECURSIVE SortByDate(_)
SortByDate(seq) ==
    IF seq = <<>> THEN <<>>
    ELSE LET i == CHOOSE i \in 1..Len(seq) :
                      /\ \A j \in 1..Len(seq) : seq[i].date >= seq[j].date
                      /\ \A j \in 1..(i - 1) : seq[j].date < seq[i].date
         IN  <<seq[i]>> \o SortByDate(SubSeq(seq, 1, i - 1) \o SubSeq(seq, i + 1, Len(seq)))

\* S3Storage.list_comments(prefix, timestamp)
list_comments(st, ts) ==
    LET keys == KeysAscending(CommentKeys(st, ts))
        comments == [i \in 1..Len(keys) |->
                        [key |-> keys[i]] @@ ParseFileName(FileName(keys[i].user, keys[i].date))]
    IN  SortByDate(comments)

\* a call of a listing operation, and what it returned
ListCall(op, arg, result) ==
    [op |-> op, outcome |-> "ok", issued |-> FALSE, changed |-> FALSE,
     arg |-> arg, result |-> result]

ListComments(ts) ==
    /\ lastCall' = ListCall("list_comments", ts, list_comments(store, ts))
    /\ UNCHANGED <<poolVars, boxVars, callerVars, threadVars, log, resetInfo, issues,
                   agent, storeVars>>

NextComments ==
    \/ \E ts \in Stamps, user \in Users, t \in 0..MaxNow : WriteComment(ts, user, t)
    \/ \E ts \in Stamps : ListComments(ts)

SpecComments == Init /\ [][NextComments]_vars

\* ----------------------------------------------------------------- SpecList
\* list_timestamps on the buckets runs leave behind: each directory of the
\* prefix empty, holding the catalog of a run that failed, or a whole Run.
Partial == {"catalog_script.py", "catalog.html"}
Fill(ts, kind) ==
    CASE kind = "none"    -> {}
      [] kind = "partial" -> {ArtifactKey(ts, f) : f \in Partial}
      [] OTHER            -> {ArtifactKey(ts, f) : f \in Artifacts}
Buckets ==
    {[k \in Keys |-> IF \E ts \in Stamps : k \in Fill(ts, fill[ts])
                     THEN Object(0, <<<<k.file, 0>>>>) ELSE NoObject] :
        fill \in [Stamps -> {"none", "partial", "run"}]}

\* nothing but the bucket: no sandbox, no Runtime, no call made yet
Quiet ==
    /\ available = <<>>
    /\ in_use = {}
    /\ status = [c \in Cids |-> "none"]
    /\ interps = [c \in Cids |-> {}]
    /\ code_input = [c \in Cids |-> "absent"]
    /\ code_output = [c \in Cids |-> NoFile]
    /\ rt = [h \in Holders |-> NoRuntime]
    /\ stale = [h \in Holders |-> NoRuntime]
    /\ nextSid = 1
    /\ pc = [t \in Threads |-> "idle"]
    /\ loc = [t \in Threads |-> [container |-> 0, ids |-> <<>>, i |-> 0]]
    /\ log = [h \in Holders |-> <<>>]
    /\ resetInfo = [h \in Holders |-> NoReset]
    /\ issues = [c \in Cids |-> <<>>]
    /\ lastCall = NoCall
    /\ agent = NewAgent
    /\ now = 0
    /\ wf = [h \in Holders |-> NoWorkflow]
    /\ runs = <<>>
    /\ posted = <<>>
    /\ chan = NoChan

InitList ==
    /\ store \in Buckets
    /\ Quiet

ListTimestamps(limit) ==
    /\ lastCall' = ListCall("list_timestamps", limit, list_timestamps(store, limit))
    /\ UNCHANGED <<poolVars, boxVars, callerVars, threadVars, log, resetInfo, issues,
                   agent, storeVars>>

Limits == 0..(MaxStamp + 2)

NextList == \E limit \in Limits : ListTimestamps(limit)

SpecList == InitList /\ [][NextList]_vars

\* ---------------------------------------------------- claims on the workflow
\* the order the steps of run are to be taken in, with the two catalog
\* writes either way round
ScriptThenHtml ==
    <<"context", "catalog_agent", "catalog_script.py", "catalog.html", "reset",
      "summary_agent", "summary_script.py", "recent_summary.html">>
HtmlThenScript ==
    <<"context", "catalog_agent", "catalog.html", "catalog_script.py", "reset",
      "summary_agent", "summary_script.py", "recent_summary.html">>
IsPrefix(t, u) == Len(t) <= Len(u) /\ t = SubSeq(u, 1, Len(t))
Calls == 1..Len(runs)
InTrail(a) == {runs[a].trail[i] : i \in 1..Len(runs[a].trail)}
\* the artifacts in the bucket that call a of run put there
PutBy(a) == {k \in Keys : store[k] # NoObject /\ store[k].by = a}
Present(ts, f) == store[ArtifactKey(ts, f)] # NoObject

\* C23: the steps of every run are taken in the order context, cataloging
\* agent, catalog_script.py and catalog.html, reset, summary agent,
\* summary_script.py, recent_summary.html; a run wrote only at the steps it
\* completed, nothing after a step that failed; catalog_script.py holds the
\* session script the cataloging agent left, written before the reset.
C23_StepsInOrder ==
    /\ \A a \in Calls :
          /\ IsPrefix(runs[a].trail, ScriptThenHtml) \/ IsPrefix(runs[a].trail, HtmlThenScript)
          /\ runs[a].state = "failed" => Len(runs[a].trail) < Len(ScriptThenHtml)
    /\ \A h \in FlowHolders : wf[h].failed => pc[h] = "finally"
    /\ \A ts \in Stamps : \A f \in Artifacts :
          LET o == store[ArtifactKey(ts, f)] IN
          o # NoObject =>
              /\ runs[o.by].ts = ts
              /\ f \in InTrail(o.by)
              /\ f = "catalog_script.py" => o.text = runs[o.by].sessions[1]

C23_Witness ==
    \E a \in Calls : \E b \in Calls :
        /\ runs[a].state = "ok"
        /\ Len(runs[a].trail) = 8
        /\ store[ArtifactKey(runs[a].ts, "catalog_script.py")].text # <<>>
        /\ runs[b].state = "failed"
        /\ runs[b].trail = <<"context", "catalog_agent", "catalog_script.py">>

\* C24: in every state of the bucket, a directory that holds
\* recent_summary.html holds catalog.html and the two scripts too.
C24_SummaryIsBarrier ==
    \A ts \in Stamps :
        Present(ts, "recent_summary.html") =>
            /\ Present(ts, "catalog.html")
            /\ Present(ts, "catalog_script.py")
            /\ Present(ts, "summary_script.py")

C24_Witness ==
    \E ts \in Stamps : \E a \in Calls : \E b \in Calls :
        /\ Present(ts, "recent_summary.html")
        /\ a # b
        /\ runs[a].ts = ts /\ runs[b].ts = ts
        /\ runs[a].state = "ok"
        /\ runs[b].state = "running"
        /\ store[ArtifactKey(ts, "catalog.html")].by = b

\* C25: the previous context a run assembles is read from a directory whose
\* recent_summary.html is present and whose objects were put by runs that
\* had returned their result.
C25_ReadsOnlyFinishedRuns ==
    \A a \in Calls :
        runs[a].read # NoRead =>
            /\ "recent_summary.html" \in runs[a].read.found
            /\ runs[a].read.unfinished = {}

\* C26: an artifact, once written, keeps its content, whatever runs follow.
C26_ArtifactsNeverChange ==
    [][\A ts \in Stamps : \A f \in Artifacts :
          Present(ts, f) =>
              store'[ArtifactKey(ts, f)].text = store[ArtifactKey(ts, f)].text]_vars

\* C28: a run started after another run had returned has the greater timestamp.
C28_TimestampsIncrease ==
    \A a \in Calls : \A b \in runs[a].after : runs[b].ts < runs[a].ts

\* C29: the calls of run made for one invocation, the first and its retries
\* after a crash, have one timestamp, take no step twice, and put all their
\* artifacts in one directory.
C29_RetryResumes ==
    \A a \in Calls : \A b \in Calls :
        (a < b /\ runs[a].inv = runs[b].inv) =>
            /\ runs[a].ts = runs[b].ts
            /\ InTrail(a) \cap InTrail(b) = {}
            /\ \A k \in PutBy(a) : \A q \in PutBy(b) : k.ts = q.ts

\* ------------------------------------------------------ claims on the store
PostedOn(ts) == {n \in 1..Len(posted) : posted[n].ts = ts}

\* C27: a comment object, once written, is never overwritten or removed, and
\* list_comments of a Run returns as many comments as write_comment calls on
\* that Run have returned.
C27_CommentsAppendOnly ==
    /\ [][\A k \in Keys : store[k] # NoObject => store'[k] = store[k]]_vars
    /\ [](\A ts \in Stamps : Len(list_comments(store, ts)) = Cardinality(PostedOn(ts)))

Elements(seq) == {seq[i] : i \in 1..Len(seq)}

\* C30: list_timestamps(prefix, limit) returns timestamps of directories of
\* the prefix, newest first, each once, and leaves one out only if it returns
\* limit timestamps that are all newer.
C30_ListNewestFirst ==
    lastCall.op = "list_timestamps" =>
        LET result == lastCall.result
            limit == lastCall.arg
        IN  /\ Elements(result) \subseteq Directories(store)
            /\ \A i \in 1..Len(result) : \A j \in (i + 1)..Len(result) : result[i] > result[j]
            /\ Len(result) <= limit
            /\ \A ts \in Directories(store) \ Elements(result) :
                  /\ Len(result) = limit
                  /\ \A i \in 1..Len(result) : result[i] > ts

\* ------------------------------------------------------------------ SpecChan
\* ContainerRuntime.execute and the interpreter loop of one Runtime, each
\* taken one exec_run / one file operation at a time.  The supervisor is
\* execute (runtime.py:157-205), the interpreter is the while True of the
\* script written by _start_interpreter (87-123).
ChanCodes == {"def1", "raise", "exit", "slow"}

Box(h) == rt[h].container
Interpreter(h) == CHOOSE i \in interps[Box(h)] : TRUE
ChanCall(code, result, out, src, closed) ==
    [code |-> code, result |-> result, out |-> out, src |-> src, closed |-> closed]

\* self._code_history.append(code); exec_run("rm -f /tmp/code_output.txt")
ExecBegin(h, code) ==
    /\ pc[h] = "idle"
    /\ rt[h] # NoRuntime
    /\ chan.sup = "idle"
    /\ Len(rt[h].code_history) < MaxExec
    /\ rt' = [rt EXCEPT ![h].code_history = Append(@, code)]
    /\ code_output' = [code_output EXCEPT ![Box(h)] = NoFile]
    /\ chan' = [chan EXCEPT !.sup = "create", !.code = code, !.n = @ + 1,
                            !.ofd = IF @ = "open" THEN "unlinked" ELSE @]
    /\ UNCHANGED <<poolVars, interps, code_input, stale, nextSid, threadVars, histVars,
                   agent, store, now, wf, runs, posted>>

\* exec_run("cat > /tmp/code_input.py << 'EOF' ..."): the shell opens the
\* file for writing, which creates it empty
ExecCreate(h) ==
    /\ chan.sup = "create"
    /\ code_input' = [code_input EXCEPT ![Box(h)] = ""]
    /\ chan' = [chan EXCEPT !.sup = "write", !.infd = "open", !.intag = chan.n]
    /\ UNCHANGED <<poolVars, interps, code_output, callerVars, threadVars, histVars,
                   agent, store, now, wf, runs, posted>>

\* ... and cat writes the code through that descriptor; if the file was
\* removed meanwhile the text goes to no name
ExecWrite(h) ==
    /\ chan.sup = "write"
    /\ code_input' = IF chan.infd = "open"
                     THEN [code_input EXCEPT ![Box(h)] = chan.code]
                     ELSE code_input
    /\ chan' = [chan EXCEPT !.sup = "poll", !.infd = "none"]
    /\ UNCHANGED <<poolVars, interps, code_output, callerVars, threadVars, histVars,
                   agent, store, now, wf, runs, posted>>

\* exec_run("test -f /tmp/code_output.txt && echo exists") says exists: break
ExecPoll(h) ==
    /\ chan.sup = "poll"
    /\ code_output[Box(h)] # NoFile
    /\ chan' = [chan EXCEPT !.sup = "read"]
    /\ UNCHANGED <<poolVars, boxVars, callerVars, threadVars, histVars,
                   agent, store, now, wf, runs, posted>>

\* the while's else: no output file within the timeout.  Sixty seconds pass
\* without one only if the interpreter is gone or is running slow code.
ExecGiveUp(h) ==
    /\ chan.sup = "poll"
    /\ code_output[Box(h)] = NoFile
    /\ \/ interps[Box(h)] = {}
       \/ chan.ip = "exec" /\ chan.icode = "slow"
    /\ chan' = [chan EXCEPT !.sup = "idle",
                            !.calls = Append(@, ChanCall(chan.code, "timeout", <<>>, 0, FALSE))]
    /\ UNCHANGED <<poolVars, boxVars, callerVars, threadVars, histVars,
                   agent, store, now, wf, runs, posted>>

\* exec_run("cat /tmp/code_output.txt") and what execute makes of it
ExecRead(h) ==
    /\ chan.sup = "read"
    /\ LET got == Parse(code_output[Box(h)], rt[h].sid) IN
       /\ rt' = [rt EXCEPT ![h].output_history = Append(@, got.output)]
       /\ chan' = [chan EXCEPT !.sup = "idle",
                     !.calls = Append(@, ChanCall(chan.code,
                                   IF got.error THEN "ExecutionError" ELSE "ok",
                                   got.output, chan.otag, chan.ofd = "none"))]
    /\ UNCHANGED <<poolVars, boxVars, stale, nextSid, threadVars, histVars,
                   agent, store, now, wf, runs, posted>>

\* os.path.exists; open, f.read(); os.remove("/tmp/code_input.py")
IntTake(h) ==
    /\ rt[h] # NoRuntime
    /\ interps[Box(h)] # {}
    /\ chan.ip = "poll"
    /\ code_input[Box(h)] # "absent"
    /\ code_input' = [code_input EXCEPT ![Box(h)] = "absent"]
    /\ chan' = [chan EXCEPT !.ip = "exec", !.icode = code_input[Box(h)],
                            !.itag = chan.intag, !.ifull = (chan.infd = "none"),
                            !.infd = IF @ = "open" THEN "unlinked" ELSE @]
    /\ UNCHANGED <<poolVars, interps, code_output, callerVars, threadVars, histVars,
                   agent, store, now, wf, runs, posted>>

\* exec(code, _globals) under try / except Exception / finally
IntExec(h) ==
    /\ chan.ip = "exec"
    /\ LET i == Interpreter(h)
           res == ExecCode(chan.icode, i.x)
           ran == Append(chan.ran, [code |-> chan.icode, tag |-> chan.itag,
                                    full |-> chan.ifull])
       IN  CASE res.fate = "done" ->
                  /\ interps' = [interps EXCEPT ![Box(h)] = {[i EXCEPT !.x = res.x]}]
                  /\ chan' = [chan EXCEPT !.ip = "open", !.ires = res, !.ran = ran]
             [] res.fate = "exit" ->
                  /\ interps' = [interps EXCEPT ![Box(h)] = {}]
                  /\ chan' = [chan EXCEPT !.ip = "dead", !.ran = ran]
             [] OTHER ->
                  /\ interps' = [interps EXCEPT ![Box(h)] = {[i EXCEPT !.busy = TRUE]}]
                  /\ chan' = [chan EXCEPT !.ip = "stuck", !.ran = ran]
    /\ UNCHANGED <<poolVars, code_input, code_output, callerVars, threadVars, histVars,
                   agent, store, now, wf, runs, posted>>

\* open("/tmp/code_output.txt", "w"): the file exists, empty
IntOpen(h) ==
    /\ chan.ip = "open"
    /\ code_output' = [code_output EXCEPT ![Box(h)] = <<>>]
    /\ chan' = [chan EXCEPT !.ip = "write", !.ofd = "open", !.otag = chan.itag]
    /\ UNCHANGED <<poolVars, interps, code_input, callerVars, threadVars, histVars,
                   agent, store, now, wf, runs, posted>>

\* f.write(output) of an output larger than the file buffer reaches the file
\* before the marker does
IntFlush(h) ==
    /\ chan.ip = "write"
    /\ chan.ires.out # <<>>
    /\ code_output' = IF chan.ofd = "open"
                      THEN [code_output EXCEPT ![Box(h)] = chan.ires.out]
                      ELSE code_output
    /\ chan' = [chan EXCEPT !.ip = "flushed"]
    /\ UNCHANGED <<poolVars, interps, code_input, callerVars, threadVars, histVars,
                   agent, store, now, wf, runs, posted>>

\* the end of the with block: output, marker and ERROR line are in the file
IntClose(h) ==
    /\ chan.ip \in {"write", "flushed"}
    /\ code_output' =
          IF chan.ofd = "open"
          THEN [code_output EXCEPT ![Box(h)] =
                   WriteOutput(chan.ires.out, Interpreter(h).sid, chan.ires.err)]
          ELSE code_output
    /\ chan' = [chan EXCEPT !.ip = "poll", !.ofd = "none"]
    /\ UNCHANGED <<poolVars, interps, code_input, callerVars, threadVars, histVars,
                   agent, store, now, wf, runs, posted>>

InterpreterStep(h) == IntTake(h) \/ IntExec(h) \/ IntOpen(h) \/ IntFlush(h) \/ IntClose(h)

NextChan ==
    \/ \E h \in SessionHolders : Acquire(h, "A")
    \/ \E h \in SessionHolders, code \in ChanCodes : ExecBegin(h, code)
    \/ \E h \in SessionHolders : ExecCreate(h)
    \/ \E h \in SessionHolders : ExecWrite(h)
    \/ \E h \in SessionHolders : ExecPoll(h)
    \/ \E h \in SessionHolders : ExecGiveUp(h)
    \/ \E h \in SessionHolders : ExecRead(h)
    \/ \E h \in SessionHolders : IntTake(h)
    \/ \E h \in SessionHolders : IntExec(h)
    \/ \E h \in SessionHolders : IntOpen(h)
    \/ \E h \in SessionHolders : IntFlush(h)
    \/ \E h \in SessionHolders : IntClose(h)

SpecChan == Init /\ [][NextChan]_vars

\* the interpreter process runs whenever it can take a step
SpecChanFair == SpecChan /\ \A h \in SessionHolders : WF_vars(InterpreterStep(h))

\* ------------------------------------- the transcript, the channel, the pool
\* every tool-use block of assistant message m is answered, in order and by
\* id, in message m + 1
AnsweredIn(msgs, m) ==
    /\ m < Len(msgs)
    /\ LET uses == ToolUses(msgs[m].content)
           reply == msgs[m + 1].content
       IN  \A j \in 1..Len(uses) :
               \E n \in 1..Len(reply) :
                   reply[n].type = "tool_result" /\ reply[n].id = uses[j].id

\* C40: the transcript handed to a model call starts with the opening user
\* message, alternates user and assistant, ends with a user message, and
\* answers every tool-use block in the message that follows it.
C40_TranscriptWellFormed ==
    agent.iteration >= 1 =>
        LET msgs == agent.sent IN
        /\ Len(msgs) >= 1
        /\ msgs[1] = OpeningMessages[1]
        /\ \A m \in 1..Len(msgs) :
              msgs[m].role = (IF m % 2 = 1 THEN "user" ELSE "assistant")
        /\ msgs[Len(msgs)].role = "user"
        /\ \A m \in 1..Len(msgs) :
              msgs[m].role = "assistant" => AnsweredIn(msgs, m)

\* the calls of execute that came back with a payload
Answers == {k \in 1..Len(chan.calls) : chan.calls[k].result # "timeout"}

\* C34: execute hands back (returns or raises with) only what it read from
\* an output file the interpreter had finished writing and closed.
C34_MarkerIsCommit ==
    \A k \in Answers : chan.calls[k].closed

\* C35: whenever the interpreter has consumed a code file it gets to write
\* the output file and to poll for the next code file again.
C35_EveryCodeAnswered ==
    (chan.ip = "exec") ~> (chan.ip = "poll")

\* C36: the payload of the k-th execute was produced by the interpreter from
\* the code file of the k-th execute, and the interpreter only ever ran a
\* code file whose writing had been completed.
C36_AnswersOwnCode ==
    /\ \A k \in Answers : chan.calls[k].src = k
    /\ \A r \in 1..Len(chan.ran) : chan.ran[r].full

IdleSet == {available[k] : k \in 1..Len(available)}
\* the thread h is in run and holds a Runtime whose sandbox is not running
HoldsLost(h) == rt[h] # NoRuntime /\ status[rt[h].container] # "running"

\* C33: a run whose sandbox has stopped does not go on past its next docker
\* call and does not return normally; a stopped sandbox that is not idle is
\* never put in the idle list, never restarted and never issued again.
C33_LostSandboxRetired ==
    [][/\ \A h \in LostHolders :
             HoldsLost(h) =>
                 /\ pc'[h] # "exit_ok"
                 /\ pc'[h] = "summary_agent" => pc[h] = "summary_agent"
                 /\ (log'[h] # log[h] /\ rt'[h] # NoRuntime) => pc'[h] = "finally_sandbox"
                 /\ rt'[h] = NoRuntime => pc'[h] = "exit_sandbox"
       /\ \A c \in Cids :
             (status[c] = "exited" /\ c \notin IdleSet) =>
                 /\ c \notin {available'[k] : k \in 1..Len(available')}
                 /\ issues'[c] = issues[c]
                 /\ status'[c] = "exited"]_vars

C33_Witness ==
    \E h \in LostHolders : \E g \in LostHolders :
        /\ pc[h] = "exit_sandbox"
        /\ status[loc[h].container] = "exited"
        /\ issues[loc[h].container] # <<>>
        /\ loc[h].container \notin IdleSet \cup in_use
        /\ g # h
        /\ rt[g] # NoRuntime
        /\ status[rt[g].container] = "running"

\* C37: every sandbox that exists is in exactly one of idle and in_use, and
\* in_use holds an id only while some caller holds a Runtime on that sandbox.
C37_BookkeepingMatches ==
    /\ \A c \in Cids :
          status[c] \in {"running", "exited"} => ((c \in IdleSet) # (c \in in_use))
    /\ \A c \in in_use : \E h \in Holders : rt[h] # NoRuntime /\ rt[h].container = c

\* ----------------------------------------------------------------- SpecRead
\* The read operations of S3Storage on the buckets runs and comments leave
\* behind: each read names a key that may or may not exist.
None == <<<<"None", 0>>>>

\* s3.get_object(Bucket, Key): the body, or NoSuchKey raised
get_object(st, key) ==
    IF st[key] = NoObject THEN [raised |-> "NoSuchKey", body |-> <<>>]
    ELSE [raised |-> "none", body |-> st[key].text]

\* what a read gave its caller: the value returned, or the exception raised
Gave(outcome, result) == [outcome |-> outcome, result |-> result]

\* S3Storage.read_html: get_object outside any try block
read_html(st, key) ==
    LET response == get_object(st, key)
    IN  IF response.raised = "none" THEN Gave("ok", response.body)
        ELSE Gave(response.raised, <<>>)

\* a read that lets NoSuchKey through
read_strict(st, key) ==
    LET response == get_object(st, key)
    IN  IF response.raised = "none" THEN Gave("ok", response.body)
        ELSE Gave(response.raised, <<>>)

\* S3Storage.read_script: except self.s3.exceptions.NoSuchKey: return None
read_script(st, key) ==
    LET response == get_object(st, key)
    IN  IF response.raised = "none" THEN Gave("ok", response.body)
        ELSE Gave("ok", None)

\* S3Storage.read_comment: except self.s3.exceptions.NoSuchKey: return None
read_comment(st, key) ==
    LET response == get_object(st, key)
    IN  IF response.raised = "none" THEN Gave("ok", response.body)
        ELSE Gave("ok", None)

ReadCall(op, key, gave) ==
    [op |-> op, outcome |-> gave.outcome, issued |-> FALSE, changed |-> FALSE,
     arg |-> key, result |-> gave.result]

HtmlFiles == {"catalog.html", "recent_summary.html"}
ScriptFiles == {"catalog_script.py", "summary_script.py"}

ReadHtml(ts, filename) ==
    /\ lastCall' = ReadCall("read_html", ArtifactKey(ts, filename),
                            read_html(store, ArtifactKey(ts, filename)))
    /\ UNCHANGED <<poolVars, boxVars, callerVars, threadVars, log, resetInfo, issues,
                   agent, storeVars>>

ReadScript(ts, filename) ==
    /\ lastCall' = ReadCall("read_script", ArtifactKey(ts, filename),
                            read_script(store, ArtifactKey(ts, filename)))
    /\ UNCHANGED <<poolVars, boxVars, callerVars, threadVars, log, resetInfo, issues,
                   agent, storeVars>>

ReadComment(ts, user, date) ==
    /\ lastCall' = ReadCall("read_comment", CommentKey(ts, user, date),
                            read_comment(store, CommentKey(ts, user, date)))
    /\ UNCHANGED <<poolVars, boxVars, callerVars, threadVars, log, resetInfo, issues,
                   agent, storeVars>>

\* the buckets, and the buckets with one comment posted after the last run
ReadBuckets ==
    Buckets \cup {put_object(b, CommentKey(ts, user, MaxStamp), Object(0, <<<<"comment", 1>>>>)) :
                     b \in Buckets, ts \in Stamps, user \in Users}

InitRead ==
    /\ store \in ReadBuckets
    /\ Quiet

\* _fetch_optional(func, *args): None for whatever func raises
fetch_optional(gave) == IF gave.outcome = "ok" THEN gave.result ELSE None

\* the truth value of a str | None
Truthy(text) == text # None /\ text # <<>>

EmptyContext ==
    [kind |-> "empty", timestamp |-> -1, comments |-> <<>>, headings |-> <<>>]

\* the loop over comments: read_comment of each entry, kept if content
comment_contents(st, comments) ==
    LET read == [i \in 1..Len(comments) |->
                    [user |-> comments[i].user, date |-> comments[i].date,
                     content |-> read_comment(st, comments[i].key).result]]
    IN  SelectSeq(read, LAMBDA c : Truthy(c.content))

\* _build_context_html: the header with the timestamp, the comments section
\* (the comments, or the notice when there are none), then a section for
\* each component that has content
build_context_html(timestamp, catalog_html, summary_html, catalog_script, summary_script, comments) ==
    [kind |-> "context", timestamp |-> timestamp, comments |-> comments,
     headings |->
        <<"User Comments & Feedback">>
        \o (IF comments = <<>> THEN <<"No comments on previous catalog.">> ELSE <<>>)
        \o (IF Truthy(catalog_html) THEN <<"Previous Catalog Results">> ELSE <<>>)
        \o (IF Truthy(summary_html) THEN <<"Previous Summary Analysis">> ELSE <<>>)
        \o (IF Truthy(catalog_script) \/ Truthy(summary_script)
            THEN <<"Python Scripts">> ELSE <<>>)
        \o (IF Truthy(catalog_script) THEN <<"Catalog Script">> ELSE <<>>)
        \o (IF Truthy(summary_script) THEN <<"Summary Script">> ELSE <<>>)]

\* generate_context_summary(storage, prefix, timestamp=None)
generate_context_summary(st) ==
    LET timestamps == list_timestamps(st, 1) IN
    IF timestamps = <<>> THEN EmptyContext
    ELSE LET timestamp == timestamps[1] IN
         build_context_html(
            timestamp,
            fetch_optional(read_html(st, ArtifactKey(timestamp, "catalog.html"))),
            fetch_optional(read_html(st, ArtifactKey(timestamp, "recent_summary.html"))),
            fetch_optional(read_script(st, ArtifactKey(timestamp, "catalog_script.py"))),
            fetch_optional(read_script(st, ArtifactKey(timestamp, "summary_script.py"))),
            comment_contents(st, list_comments(st, timestamp)))

\* (history) the keys generate_context_summary calls get_object on
KeysRead(st) ==
    LET timestamps == list_timestamps(st, 1) IN
    IF timestamps = <<>> THEN {}
    ELSE {ArtifactKey(timestamps[1], f) : f \in Artifacts}
         \cup CommentKeys(st, timestamps[1])

\* GET /catalog/context without a timestamp
GenerateContextSummary ==
    /\ lastCall' = [op |-> "generate_context_summary", outcome |-> "ok", issued |-> FALSE,
                    changed |-> FALSE, arg |-> KeysRead(store),
                    result |-> generate_context_summary(store)]
    /\ UNCHANGED <<poolVars, boxVars, callerVars, threadVars, log, resetInfo, issues,
                   agent, storeVars>>

NextRead ==
    \/ GenerateContextSummary
    \/ \E ts \in Stamps, f \in HtmlFiles : ReadHtml(ts, f)
    \/ \E ts \in Stamps, f \in ScriptFiles : ReadScript(ts, f)
    \/ \E ts \in Stamps, user \in Users, date \in Stamps : ReadComment(ts, user, date)
    \/ \E ts \in Stamps : ListComments(ts)
    \/ \E limit \in Limits : ListTimestamps(limit)

SpecRead == InitRead /\ [][NextRead]_vars

\* C31: a read of a key that holds no object returns None from read_script
\* and from read_comment and raises the not-found error from read_html; a
\* listing of a prefix with no directory, or of a Run with no comment, returns
\* the empty list; and no read or listing changes the store.
C31_MissingKeyReads ==
    [][(lastCall'.op # lastCall.op \/ lastCall' # lastCall) =>
        /\ store' = store
        /\ lastCall'.op \in {"read_script", "read_comment"} /\ store[lastCall'.arg] = NoObject
              => lastCall'.outcome = "ok" /\ lastCall'.result = None
        /\ lastCall'.op = "read_html" /\ store[lastCall'.arg] = NoObject
              => lastCall'.outcome = "NoSuchKey"
        /\ lastCall'.op \in {"read_script", "read_comment", "read_html"}
              /\ store[lastCall'.arg] # NoObject
              => lastCall'.outcome = "ok" /\ lastCall'.result = store[lastCall'.arg].text
        /\ lastCall'.op = "list_timestamps" /\ Directories(store) = {}
              => lastCall'.outcome = "ok" /\ lastCall'.result = <<>>
        /\ lastCall'.op = "list_comments" /\ CommentKeys(store, lastCall'.arg) = {}
              => lastCall'.outcome = "ok" /\ lastCall'.result = <<>>]_vars

\* read_comment found no object under a key of a Run that holds other objects
C31_Witness ==
    /\ lastCall.op = "read_comment"
    /\ store[lastCall.arg] = NoObject
    /\ lastCall.result = None
    /\ CommentKeys(store, lastCall.arg.ts) # {}

\* the fields between "-" of a user name without one, and of the creation
\* timestamp "%Y-%m-%dT%H:%M:%SZ"
UserFields(user) == <<user>>
StampFields(date) == <<"%Y", "%m", date>>

\* C38: every comment written to a Run has an entry in list_comments of that
\* Run whose user is the user passed to write_comment and whose date is the
\* whole creation timestamp, and the entries come newest first.
C38_CommentsKeepUserAndDate ==
    lastCall.op = "list_comments" =>
        /\ \A n \in PostedOn(lastCall.arg) :
              \E i \in 1..Len(lastCall.result) :
                  /\ lastCall.result[i].key = CommentKey(posted[n].ts, posted[n].user, posted[n].date)
                  /\ lastCall.result[i].user = UserFields(posted[n].user)
                  /\ <<lastCall.result[i].date>> = StampFields(posted[n].date)
        /\ \A i, j \in 1..Len(lastCall.result) :
              i < j => lastCall.result[i].key.date >= lastCall.result[j].key.date

\* the greatest timestamp of a directory under the prefix
Newest(st) == CHOOSE ts \in Directories(st) : \A u \in Directories(st) : u <= ts
SectionOf(filename) ==
    CASE filename = "catalog.html"        -> "Previous Catalog Results"
      [] filename = "recent_summary.html" -> "Previous Summary Analysis"
      [] filename = "catalog_script.py"   -> "Catalog Script"
      [] OTHER                            -> "Summary Script"
Headings(doc) == {doc.headings[i] : i \in 1..Len(doc.headings)}

\* C32: generate_context_summary without a timestamp returns the empty
\* document, having read nothing, exactly when the prefix has no directory;
\* otherwise it assembles the directory with the greatest timestamp, leaves
\* out each of the four artifacts that is missing without an error, and
\* always has the comments section, with the notice when there are none.
C32_AssemblesNewestRun ==
    lastCall.op = "generate_context_summary" =>
        /\ lastCall.outcome = "ok"
        /\ lastCall.result.kind = "empty" <=> Directories(store) = {}
        /\ lastCall.result.kind = "empty" => lastCall.arg = {}
        /\ lastCall.result.kind = "context" =>
              /\ lastCall.result.timestamp = Newest(store)
              /\ \A f \in Artifacts :
                    store[ArtifactKey(lastCall.result.timestamp, f)] = NoObject
                        => SectionOf(f) \notin Headings(lastCall.result)
              /\ "User Comments & Feedback" \in Headings(lastCall.result)
              /\ CommentKeys(store, lastCall.result.timestamp) = {}
                    => "No comments on previous catalog." \in Headings(lastCall.result)

\* -------------------------------------------------------------- SpecContext
\* CatalogWorkflow.run from _get_previous_context to the two agents, on the
\* buckets of SpecRead, with the object store failing where it may: at the
\* listing, or while the summary is assembled.
Faults == {"none", "list", "assemble"}

\* strip_html_tags(html): the text between the tags, which the title, the
\* timestamp line and the headings always give
strip_html_tags(doc) ==
    <<<<"Context Summary", doc.timestamp>>>>
    \o [i \in 1..Len(doc.headings) |-> <<doc.headings[i], 0>>]

\* the body of _get_previous_context with nothing caught
get_previous_context_uncaught(st, fault) ==
    IF fault = "list" THEN Gave("TransportError", <<>>)
    ELSE IF list_timestamps(st, 1) = <<>> THEN Gave("ok", None)
    ELSE IF fault = "assemble" THEN Gave("TransportError", <<>>)
    ELSE Gave("ok", strip_html_tags(generate_context_summary(st)))

\* CatalogWorkflow._get_previous_context: except Exception: return None
get_previous_context(st, fault) ==
    IF fault = "list" THEN Gave("ok", None)
    ELSE IF list_timestamps(st, 1) = <<>> THEN Gave("ok", None)
    ELSE IF fault = "assemble" THEN Gave("ok", None)
    ELSE Gave("ok", strip_html_tags(generate_context_summary(st)))

\* a context with the key added whatever the value
WithPreviousAlways(context, previous_context) ==
    context @@ [previous_context |-> previous_context]

\* if previous_context: context["previous_context"] = previous_context
WithPrevious(context, previous_context) ==
    IF Truthy(previous_context) THEN context @@ [previous_context |-> previous_context]
    ELSE context

\* previous_context = self._get_previous_context(s3_prefix)
GetPreviousContext(h, fault) ==
    /\ pc[h] = "idle"
    /\ LET gave == get_previous_context(store, fault) IN
       /\ Goto(h, IF gave.outcome = "ok" THEN "catalog_agent" ELSE "raised")
       /\ wf' = [wf EXCEPT ![h] = [timestamp |-> generate_timestamp(now), fault |-> fault,
                                   previous_context |-> gave.result, contexts |-> <<>>]]
    /\ UNCHANGED <<poolVars, boxVars, callerVars, loc, log, resetInfo, issues, lastCall,
                   agent, chan, posted, store, now, runs>>

\* _run_cataloging_agent: context = {"tables": tables}, agent.run(context)
RunCatalogingAgent(h) ==
    /\ pc[h] = "catalog_agent"
    /\ Goto(h, "summary_agent")
    /\ wf' = [wf EXCEPT ![h].contexts =
                 Append(@, WithPrevious([tables |-> "tables"], wf[h].previous_context))]
    /\ UNCHANGED <<poolVars, boxVars, callerVars, loc, log, resetInfo, issues, lastCall,
                   agent, chan, posted, store, now, runs>>

\* _run_summary_agent: context = {"s3_prefix", "current_timestamp"}
RunSummaryAgent(h) ==
    /\ pc[h] = "summary_agent"
    /\ Goto(h, "done")
    /\ wf' = [wf EXCEPT ![h].contexts =
                 Append(@, WithPrevious([s3_prefix |-> "prefix",
                                         current_timestamp |-> wf[h].timestamp],
                                        wf[h].previous_context))]
    /\ UNCHANGED <<poolVars, boxVars, callerVars, loc, log, resetInfo, issues, lastCall,
                   agent, chan, posted, store, now, runs>>

ContextHolders == {1}

NextContext ==
    \/ \E h \in ContextHolders, fault \in Faults : GetPreviousContext(h, fault)
    \/ \E h \in ContextHolders : RunCatalogingAgent(h)
    \/ \E h \in ContextHolders : RunSummaryAgent(h)

SpecContext == InitRead /\ [][NextContext]_vars

\* the run of h has a previous Run whose summary was assembled, with text
HasPrevious(h) ==
    /\ Directories(store) # {}
    /\ wf[h].fault = "none"
    /\ strip_html_tags(generate_context_summary(store)) # <<>>
PreviousKey(h) == IF HasPrevious(h) THEN {"previous_context"} ELSE {}

\* C39: whatever fails while the previous Run is listed or assembled, run goes
\* on to its agents; the cataloging agent's context has the key tables and
\* the summary agent's the keys s3_prefix and current_timestamp, each with
\* previous_context exactly when a previous timestamp exists and its summary
\* was assembled with text, and no other key; both get the same text.
C39_ContextFailureTolerated ==
    \A h \in ContextHolders :
        /\ pc[h] # "raised"
        /\ pc[h] \in {"summary_agent", "done"} =>
              DOMAIN wf[h].contexts[1] = {"tables"} \cup PreviousKey(h)
        /\ pc[h] = "done" =>
              /\ DOMAIN wf[h].contexts[2] = {"s3_prefix", "current_timestamp"} \cup PreviousKey(h)
              /\ HasPrevious(h) =>
                    /\ wf[h].contexts[1].previous_context = wf[h].contexts[2].previous_context
                    /\ wf[h].contexts[1].previous_context
                          = strip_html_tags(generate_context_summary(store))

\* a run with a previous Run whose assembly failed gave both agents a context
\* without the key
C39_Witness ==
    /\ pc[1] = "done"
    /\ wf[1].fault = "assemble"
    /\ Directories(store) # {}
    /\ "previous_context" \notin DOMAIN wf[1].contexts[2]

====
